---- MODULE Spec2Model ----
(***************************************************************************)
(* Codecs of blinklabs-io/cardano-models: the Cardano DNS datum (Tagged    *)
(* Optional, domain record, domain) in its three revisions, and the        *)
(* flexible scalar fields of the CIP-25 / CIP-27 metadata.                 *)
(*                                                                         *)
(* Wire values are the CBOR / JSON data model, one record [k, v] per       *)
(* value: k names the major type and v is its content.  Go values are      *)
(* records carrying the fields of the Go struct; a Go string is the        *)
(* sequence of its bytes.                                                  *)
(***************************************************************************)
EXTENDS Integers, Sequences, FiniteSets, TLC

VARIABLES recv, op, arg, ret, old

vars == <<recv, op, arg, ret, old>>

(***************************************************************************)
(* Bounds of the model.                                                    *)
(***************************************************************************)
MaxRecords == 2
MaxTtl == 1
MaxIndex == 2
MaxFields == 5
MaxItems == 2
MaxKeys == 2
MaxVersion == 3
MaxFiles == 2

(***************************************************************************)
(* CBOR data model.                                                        *)
(***************************************************************************)
Bytes(b) == [k |-> "bytes", v |-> b]
UInt(n) == [k |-> "uint", v |-> n]
Array(items) == [k |-> "array", v |-> items]
NewConstructor(idx, fields) == [k |-> "constr", v |-> [idx |-> idx, fields |-> fields]]
Null == [k |-> "null", v |-> 0]

IsConstructor(data) == data.k = "constr"
Constructor(data) == data.v.idx
Fields(data) == data.v.fields

\* Result of a decode: the error outcome and the receiver after the call.
Ok(c) == [err |-> "nil", c |-> c]
Fail(c) == [err |-> "error", c |-> c]
Panic(c) == [err |-> "panic", c |-> c]

(***************************************************************************)
(* CardanoDnsMaybe[T]                                                      *)
(***************************************************************************)
ZeroValue(T) == IF T = "CardanoDnsTtl" THEN 0 ELSE Null

ZeroMaybe(T) == [Value |-> ZeroValue(T), hasValue |-> FALSE]

\* v = Null stands for the untyped nil argument, UInt(n) for CardanoDnsTtl(n).
NewCardanoDnsMaybe(T, v) ==
    IF v = Null
    THEN ZeroMaybe(T)
    ELSE [Value |-> IF T = "CardanoDnsTtl" THEN v.v ELSE v, hasValue |-> TRUE]

HasValue(c) == c.hasValue

\* Decoding one CBOR item into the Value field of type T.  A Value of type
\* any is kept as the item it was decoded from.
DecodeValue(T, item) ==
    IF T = "CardanoDnsTtl"
    THEN IF item.k = "uint" THEN [err |-> FALSE, val |-> item.v]
                            ELSE [err |-> TRUE, val |-> 0]
    ELSE [err |-> FALSE, val |-> item]

EncodeValue(T, val) == IF T = "CardanoDnsTtl" THEN UInt(val) ELSE val

\* Variant: the field count under constructor 0 is not checked.
CardanoDnsMaybe_UnmarshalCBOR_AnyCount(T, c, data) ==
    IF ~IsConstructor(data) THEN Fail(c)
    ELSE IF Constructor(data) = 0
         THEN IF Len(Fields(data)) = 0 THEN Ok([Value |-> ZeroValue(T), hasValue |-> TRUE])
              ELSE LET d == DecodeValue(T, Fields(data)[1])
                   IN  IF d.err THEN Fail(c)
                       ELSE Ok([Value |-> d.val, hasValue |-> TRUE])
         ELSE Ok(c)

CardanoDnsMaybe_UnmarshalCBOR(T, c, data) ==
    IF ~IsConstructor(data) THEN Fail(c)
    ELSE IF Constructor(data) = 0
         THEN IF Len(Fields(data)) # 1 THEN Fail(c)
              ELSE LET d == DecodeValue(T, Fields(data)[1])
                   IN  IF d.err THEN Fail(c)
                       ELSE Ok([Value |-> d.val, hasValue |-> TRUE])
         ELSE Ok(c)

\* Variant: the two constructor indexes are exchanged.
CardanoDnsMaybe_MarshalCBOR_Swapped(T, m) ==
    IF ~HasValue(m)
    THEN NewConstructor(0, <<>>)
    ELSE NewConstructor(1, <<EncodeValue(T, m.Value)>>)

CardanoDnsMaybe_MarshalCBOR(T, m) ==
    IF ~HasValue(m)
    THEN NewConstructor(1, <<>>)
    ELSE NewConstructor(0, <<EncodeValue(T, m.Value)>>)

(***************************************************************************)
(* CardanoDnsDomainRecord and CardanoDnsDomain, newest revision: both are  *)
(* decoded through a method-less copy of the struct, which the CBOR        *)
(* library fills from an array of exactly as many items as the struct has  *)
(* exported fields.  A []byte field is filled from a byte string; CBOR     *)
(* null and arrays of small integers, which the library also accepts for   *)
(* a []byte, are outside the inputs enumerated here, and so are nil        *)
(* slices, which are written as null.                                      *)
(***************************************************************************)
ZeroRecord ==
    [Lhs |-> <<>>, Ttl |-> ZeroMaybe("CardanoDnsTtl"), Type |-> <<>>, Rhs |-> <<>>]

ZeroDomain ==
    [Origin |-> <<>>, Records |-> <<>>, AdditionalData |-> ZeroMaybe("any")]

\* Variant: the optional is read from the third field and the type from the
\* second.
CardanoDnsDomainRecord_UnmarshalCBOR_TtlThird(c, data) ==
    IF ~IsConstructor(data) THEN Fail(c)
    ELSE IF Constructor(data) # 1 THEN Fail(c)
    ELSE LET f == Fields(data) IN
         IF Len(f) # 4 THEN Fail(c)
         ELSE LET ttl == CardanoDnsMaybe_UnmarshalCBOR(
                             "CardanoDnsTtl", ZeroMaybe("CardanoDnsTtl"), f[3])
              IN  IF \/ f[1].k # "bytes"
                     \/ ttl.err # "nil"
                     \/ f[2].k # "bytes"
                     \/ f[4].k # "bytes"
                  THEN Fail(c)
                  ELSE Ok([Lhs |-> f[1].v, Ttl |-> ttl.c,
                           Type |-> f[2].v, Rhs |-> f[4].v])

\* Variant: the constructor index of a record is not checked.
CardanoDnsDomainRecord_UnmarshalCBOR_AnyIndex(c, data) ==
    IF ~IsConstructor(data) THEN Fail(c)
    ELSE LET f == Fields(data) IN
         IF Len(f) # 4 THEN Fail(c)
         ELSE LET ttl == CardanoDnsMaybe_UnmarshalCBOR(
                             "CardanoDnsTtl", ZeroMaybe("CardanoDnsTtl"), f[2])
              IN  IF \/ f[1].k # "bytes"
                     \/ ttl.err # "nil"
                     \/ f[3].k # "bytes"
                     \/ f[4].k # "bytes"
                  THEN Fail(c)
                  ELSE Ok([Lhs |-> f[1].v, Ttl |-> ttl.c,
                           Type |-> f[3].v, Rhs |-> f[4].v])

CardanoDnsDomainRecord_UnmarshalCBOR(c, data) ==
    IF ~IsConstructor(data) THEN Fail(c)
    ELSE IF Constructor(data) # 1 THEN Fail(c)
    ELSE LET f == Fields(data) IN
         IF Len(f) # 4 THEN Fail(c)
         ELSE LET ttl == CardanoDnsMaybe_UnmarshalCBOR(
                             "CardanoDnsTtl", ZeroMaybe("CardanoDnsTtl"), f[2])
              IN  IF \/ f[1].k # "bytes"
                     \/ ttl.err # "nil"
                     \/ f[3].k # "bytes"
                     \/ f[4].k # "bytes"
                  THEN Fail(c)
                  ELSE Ok([Lhs |-> f[1].v, Ttl |-> ttl.c,
                           Type |-> f[3].v, Rhs |-> f[4].v])

\* Variant: Type and Rhs are written in the wrong order.
CardanoDnsDomainRecord_MarshalCBOR_RhsFirst(r) ==
    NewConstructor(1, <<Bytes(r.Lhs),
                        CardanoDnsMaybe_MarshalCBOR("CardanoDnsTtl", r.Ttl),
                        Bytes(r.Rhs),
                        Bytes(r.Type)>>)

CardanoDnsDomainRecord_MarshalCBOR(r) ==
    NewConstructor(1, <<Bytes(r.Lhs),
                        CardanoDnsMaybe_MarshalCBOR("CardanoDnsTtl", r.Ttl),
                        Bytes(r.Type),
                        Bytes(r.Rhs)>>)

\* Variant: a failing record is skipped instead of failing the domain.
DecodeRecords_SkipBad(items) ==
    LET each == [i \in 1..Len(items) |->
                    CardanoDnsDomainRecord_UnmarshalCBOR(ZeroRecord, items[i])]
        good == SelectSeq([i \in 1..Len(items) |-> each[i]], LAMBDA r : r.err = "nil")
    IN  [err |-> FALSE, val |-> [i \in 1..Len(good) |-> good[i].c]]

\* The Records field: every item of the array is decoded into a new record.
DecodeRecords(items) ==
    LET each == [i \in 1..Len(items) |->
                    CardanoDnsDomainRecord_UnmarshalCBOR(ZeroRecord, items[i])]
    IN  IF \E i \in 1..Len(items) : each[i].err # "nil"
        THEN [err |-> TRUE, val |-> <<>>]
        ELSE [err |-> FALSE, val |-> [i \in 1..Len(items) |-> each[i].c]]

\* Variant: the origin is stored in the receiver before the records are read.
CardanoDnsDomain_UnmarshalCBOR_OriginFirst(c, cborData) ==
    IF ~IsConstructor(cborData) THEN Fail(c)
    ELSE IF Constructor(cborData) # 1 THEN Fail(c)
    ELSE LET f == Fields(cborData) IN
         IF Len(f) # 3 THEN Fail(c)
         ELSE IF f[1].k # "bytes" \/ f[2].k # "array" THEN Fail(c)
         ELSE LET recs == DecodeRecords(f[2].v)
                  ad == CardanoDnsMaybe_UnmarshalCBOR("any", ZeroMaybe("any"), f[3])
              IN  IF recs.err \/ ad.err # "nil"
                  THEN Fail([c EXCEPT !.Origin = f[1].v])
                  ELSE Ok([Origin |-> f[1].v, Records |-> recs.val,
                           AdditionalData |-> ad.c])

CardanoDnsDomain_UnmarshalCBOR(c, cborData) ==
    IF ~IsConstructor(cborData) THEN Fail(c)
    ELSE IF Constructor(cborData) # 1 THEN Fail(c)
    ELSE LET f == Fields(cborData) IN
         IF Len(f) # 3 THEN Fail(c)
         ELSE IF f[1].k # "bytes" \/ f[2].k # "array" THEN Fail(c)
         ELSE LET recs == DecodeRecords(f[2].v)
                  ad == CardanoDnsMaybe_UnmarshalCBOR("any", ZeroMaybe("any"), f[3])
              IN  IF recs.err \/ ad.err # "nil"
                  THEN Fail(c)
                  ELSE Ok([Origin |-> f[1].v, Records |-> recs.val,
                           AdditionalData |-> ad.c])

CardanoDnsDomain_MarshalCBOR(c) ==
    NewConstructor(1, <<Bytes(c.Origin),
                        Array([i \in 1..Len(c.Records) |->
                                  CardanoDnsDomainRecord_MarshalCBOR(c.Records[i])]),
                        CardanoDnsMaybe_MarshalCBOR("any", c.AdditionalData)>>)

(***************************************************************************)
(* CardanoDnsDomain of cdns.go, the oldest revision: Ttl is a plain uint,  *)
(* AdditionalData an untyped value, and the fields are taken out of the    *)
(* generically decoded constructor with unchecked type assertions, which   *)
(* panic on a value of another type.  The receiver is written field by     *)
(* field while the input is read.                                          *)
(***************************************************************************)
ZeroLegacyDomain == [Origin |-> <<>>, Records |-> <<>>, AdditionalData |-> Null]

\* Variant: the second and third field of a 3-field record are exchanged.
LegacyRecord3_RhsFirst(f) ==
    [Lhs |-> f[1].v, Ttl |-> 0, Type |-> f[3].v, Rhs |-> f[2].v]

\* Variant: the ttl of a 4-field record is not stored.
LegacyRecord4_NoTtl(f) ==
    [Lhs |-> f[1].v, Ttl |-> 0, Type |-> f[3].v, Rhs |-> f[4].v]

\* tmpRecord as the two cases of the switch on the field count fill it.
LegacyRecord3(f) == [Lhs |-> f[1].v, Ttl |-> 0, Type |-> f[2].v, Rhs |-> f[3].v]

LegacyRecord4(f) == [Lhs |-> f[1].v, Ttl |-> f[2].v, Type |-> f[3].v, Rhs |-> f[4].v]

\* The body of the loop over the records, from record i on.
RECURSIVE LegacyDecodeRecords(_, _, _)
LegacyDecodeRecords(c, items, i) ==
    IF i > Len(items) THEN Ok(c)
    ELSE LET record == items[i] IN
         IF ~IsConstructor(record) THEN Panic(c)
         ELSE LET f == Fields(record) IN
              IF Constructor(record) # 1 THEN Fail(c)
              ELSE IF Len(f) = 3
              THEN IF f[1].k # "bytes" \/ f[2].k # "bytes" \/ f[3].k # "bytes"
                   THEN Panic(c)
                   ELSE LegacyDecodeRecords(
                            [c EXCEPT !.Records = Append(@, LegacyRecord3(f))],
                            items, i + 1)
              ELSE IF Len(f) = 4
              THEN IF \/ f[1].k # "bytes" \/ f[2].k # "uint"
                      \/ f[3].k # "bytes" \/ f[4].k # "bytes"
                   THEN Panic(c)
                   ELSE LegacyDecodeRecords(
                            [c EXCEPT !.Records = Append(@, LegacyRecord4(f))],
                            items, i + 1)
              ELSE Fail(c)

LegacyCardanoDnsDomain_UnmarshalCBOR(c, cborData) ==
    IF ~IsConstructor(cborData) THEN Fail(c)
    ELSE IF Constructor(cborData) # 1 THEN Fail(c)
    ELSE LET f == Fields(cborData) IN
         IF Len(f) \notin {2, 3} THEN Fail(c)
         ELSE IF f[1].k # "bytes" THEN Panic(c)
         ELSE LET c1 == [c EXCEPT !.Origin = f[1].v] IN
              IF f[2].k # "array" THEN Panic(c1)
              ELSE LET r == LegacyDecodeRecords(c1, f[2].v, 1) IN
                   IF r.err # "nil" THEN r
                   ELSE IF Len(f) = 3
                        THEN Ok([r.c EXCEPT !.AdditionalData = f[3]])
                        ELSE r

(***************************************************************************)
(* CardanoDnsDomain of part_000:48-67, the revision between the two: the   *)
(* types are those of the newest revision; the origin and the array of     *)
(* records are taken out of the generically decoded constructor with       *)
(* unchecked type assertions, without a look at the number of fields, each *)
(* record is decoded by CardanoDnsDomainRecord.UnmarshalCBOR into a new    *)
(* record and appended to the records of the receiver.  AdditionalData is  *)
(* not read.                                                               *)
(***************************************************************************)
\* The body of the loop over the records, from record i on.
RECURSIVE MiddleDecodeRecords(_, _, _)
MiddleDecodeRecords(c, items, i) ==
    IF i > Len(items) THEN Ok(c)
    ELSE IF ~IsConstructor(items[i]) THEN Panic(c)
    ELSE LET tmpRecord == CardanoDnsDomainRecord_UnmarshalCBOR(ZeroRecord, items[i])
         IN  IF tmpRecord.err # "nil" THEN Fail(c)
             ELSE MiddleDecodeRecords([c EXCEPT !.Records = Append(@, tmpRecord.c)],
                                      items, i + 1)

MiddleCardanoDnsDomain_UnmarshalCBOR(c, cborData) ==
    IF ~IsConstructor(cborData) THEN Fail(c)
    ELSE IF Constructor(cborData) # 1 THEN Fail(c)
    ELSE LET tmpFields == Fields(cborData) IN
         IF Len(tmpFields) < 1 \/ tmpFields[1].k # "bytes" THEN Panic(c)
         ELSE LET c1 == [c EXCEPT !.Origin = tmpFields[1].v] IN
              IF Len(tmpFields) < 2 \/ tmpFields[2].k # "array" THEN Panic(c1)
              ELSE MiddleDecodeRecords(c1, tmpFields[2].v, 1)

(***************************************************************************)
(* Flexible scalar fields: AddrField (CIP-27), UriField and DescField      *)
(* (CIP-25).  A Go []string is a record of its elements and whether the    *)
(* slice is nil; json.Marshal and cbor.Marshal emit null for a nil slice   *)
(* and an array of strings otherwise.  Strings are valid UTF-8 text.       *)
(***************************************************************************)
Slice(elems) == [elems |-> elems, isNil |-> FALSE]
NilSlice == [elems |-> <<>>, isNil |-> TRUE]
len(s) == Len(s.elems)

JsonString(s) == [k |-> "string", v |-> s]
CborText(s) == [k |-> "text", v |-> s]

\* A JSON number is e53 * 2^53 + n.
JsonNumber(e53, n) == [k |-> "number", v |-> [e53 |-> e53, n |-> n]]
JsonBool(b) == [k |-> "bool", v |-> b]
\* A JSON object is a function from its keys to its values.
JsonObject(members) == [k |-> "object", v |-> members]
\* A CBOR map is the sequence of its entries [key, val] as written.
CborMap(entries) == [k |-> "map", v |-> entries]

JsonMarshalStrings(s) ==
    IF s.isNil THEN Null
    ELSE Array([i \in 1..len(s) |-> JsonString(s.elems[i])])

CborMarshalStrings(s) ==
    IF s.isNil THEN Null
    ELSE Array([i \in 1..len(s) |-> CborText(s.elems[i])])

AddrField_MarshalJSON(af) ==
    IF len(af.Addresses) = 1
    THEN JsonString(af.Addresses.elems[1])
    ELSE JsonMarshalStrings(af.Addresses)

UriField_MarshalJSON(u) ==
    IF len(u.Uris) = 1
    THEN JsonString(u.Uris.elems[1])
    ELSE JsonMarshalStrings(u.Uris)

\* Variant: the single-element case is missing.
UriField_MarshalCBOR_AlwaysArray(u) == CborMarshalStrings(u.Uris)

UriField_MarshalCBOR(u) ==
    IF len(u.Uris) = 1
    THEN CborText(u.Uris.elems[1])
    ELSE CborMarshalStrings(u.Uris)

DescField_MarshalJSON(d) ==
    IF len(d.Descriptions) = 0 THEN JsonString(<<>>)
    ELSE IF len(d.Descriptions) = 1
    THEN JsonString(d.Descriptions.elems[1])
    ELSE JsonMarshalStrings(d.Descriptions)

DescField_MarshalCBOR(d) ==
    IF len(d.Descriptions) = 0 THEN Null
    ELSE IF len(d.Descriptions) = 1
    THEN CborText(d.Descriptions.elems[1])
    ELSE CborMarshalStrings(d.Descriptions)

(***************************************************************************)
(* Decoders of the flexible scalar fields.  json.Unmarshal and             *)
(* cbor.Unmarshal leave a string untouched, without an error, when the     *)
(* input is null; a null element of an array leaves the empty string at    *)
(* its place.                                                              *)
(***************************************************************************)
\* json.Unmarshal(data, &single) with var single string.
JsonUnmarshalString(data) ==
    IF data.k = "string" THEN [err |-> FALSE, val |-> data.v]
    ELSE IF data.k = "null" THEN [err |-> FALSE, val |-> <<>>]
    ELSE [err |-> TRUE, val |-> <<>>]

\* json.Unmarshal(data, &arr) with arr a []string.
JsonUnmarshalStrings(data) ==
    IF data.k = "array" /\ \A i \in 1..Len(data.v) : data.v[i].k \in {"string", "null"}
    THEN [err |-> FALSE,
          val |-> Slice([i \in 1..Len(data.v) |->
                            IF data.v[i].k = "string" THEN data.v[i].v ELSE <<>>])]
    ELSE [err |-> TRUE, val |-> NilSlice]

\* cbor.Unmarshal(data, &single) with var single string.
CborUnmarshalString(data) ==
    IF data.k = "text" THEN [err |-> FALSE, val |-> data.v]
    ELSE IF data.k = "null" THEN [err |-> FALSE, val |-> <<>>]
    ELSE [err |-> TRUE, val |-> <<>>]

\* cbor.Unmarshal(data, &arr) with arr a []string.
CborUnmarshalStrings(data) ==
    IF data.k = "array" /\ \A i \in 1..Len(data.v) : data.v[i].k \in {"text", "null"}
    THEN [err |-> FALSE,
          val |-> Slice([i \in 1..Len(data.v) |->
                            IF data.v[i].k = "text" THEN data.v[i].v ELSE <<>>])]
    ELSE [err |-> TRUE, val |-> NilSlice]

AddrField_UnmarshalJSON(af, data) ==
    LET single == JsonUnmarshalString(data)
        arr == JsonUnmarshalStrings(data)
    IN  IF ~single.err THEN Ok([Addresses |-> Slice(<<single.val>>)])
        ELSE IF ~arr.err THEN Ok([Addresses |-> arr.val])
        ELSE Fail(af)

UriField_UnmarshalJSON(u, data) ==
    LET single == JsonUnmarshalString(data)
        arr == JsonUnmarshalStrings(data)
    IN  IF ~single.err THEN Ok([Uris |-> Slice(<<single.val>>)])
        ELSE IF ~arr.err THEN Ok([Uris |-> arr.val])
        ELSE Fail(u)

\* Variant: of an array only the first element is kept.
UriField_UnmarshalCBOR_FirstOnly(u, data) ==
    LET single == CborUnmarshalString(data)
        arr == CborUnmarshalStrings(data)
    IN  IF data.k = "null" THEN Ok([Uris |-> NilSlice])
        ELSE IF ~single.err THEN Ok([Uris |-> Slice(<<single.val>>)])
        ELSE IF ~arr.err
             THEN Ok([Uris |-> Slice(IF Len(arr.val.elems) = 0 THEN <<>>
                                     ELSE <<arr.val.elems[1]>>)])
        ELSE Fail(u)

UriField_UnmarshalCBOR(u, data) ==
    LET single == CborUnmarshalString(data)
        arr == CborUnmarshalStrings(data)
    IN  IF data.k = "null" THEN Ok([Uris |-> NilSlice])
        ELSE IF ~single.err THEN Ok([Uris |-> Slice(<<single.val>>)])
        ELSE IF ~arr.err THEN Ok([Uris |-> arr.val])
        ELSE Fail(u)

DescField_UnmarshalJSON(d, data) ==
    LET single == JsonUnmarshalString(data)
        arr == JsonUnmarshalStrings(data)
    IN  IF ~single.err THEN Ok([Descriptions |-> Slice(<<single.val>>)])
        ELSE IF ~arr.err THEN Ok([Descriptions |-> arr.val])
        ELSE Fail(d)

DescField_UnmarshalCBOR(d, data) ==
    LET single == CborUnmarshalString(data)
        arr == CborUnmarshalStrings(data)
    IN  IF data.k = "null" THEN Ok([Descriptions |-> NilSlice])
        ELSE IF ~single.err THEN Ok([Descriptions |-> Slice(<<single.val>>)])
        ELSE IF ~arr.err THEN Ok([Descriptions |-> arr.val])
        ELSE Fail(d)

(***************************************************************************)
(* Go maps.  A map is a function from its keys to its values; a nil map    *)
(* and an empty map are the same function.  The order in which a range     *)
(* statement visits the entries is not fixed: the operations below take    *)
(* the order as a sequence of keys or entries.                             *)
(***************************************************************************)
EmptyMap == <<>>

MapSet(m, key, val) ==
    [x \in DOMAIN m \cup {key} |-> IF x = key THEN val ELSE m[x]]

\* maps.Copy(dst, src)
MapsCopy(dst, src) ==
    [x \in DOMAIN dst \cup DOMAIN src |-> IF x \in DOMAIN src THEN src[x] ELSE dst[x]]

RECURSIVE SetToSeq(_)
SetToSeq(S) ==
    IF S = {} THEN <<>>
    ELSE LET x == CHOOSE y \in S : TRUE IN <<x>> \o SetToSeq(S \ {x})

Reverse(seq) == [i \in 1..Len(seq) |-> seq[Len(seq) + 1 - i]]

\* One of the orders in which a range statement visits the keys of m.
Range(m, rev) == IF rev THEN Reverse(SetToSeq(DOMAIN m)) ELSE SetToSeq(DOMAIN m)

(***************************************************************************)
(* Keys of the JSON objects and CBOR maps, as the bytes of their text.     *)
(***************************************************************************)
nameKey == <<110, 97, 109, 101>>
imageKey == <<105, 109, 97, 103, 101>>
mediaTypeKey == <<109, 101, 100, 105, 97, 84, 121, 112, 101>>
descriptionKey == <<100, 101, 115, 99, 114, 105, 112, 116, 105, 111, 110>>
filesKey == <<102, 105, 108, 101, 115>>
srcKey == <<115, 114, 99>>
versionKey == <<118, 101, 114, 115, 105, 111, 110>>

(***************************************************************************)
(* json.Unmarshal into an untyped value: every number becomes a float64,   *)
(* which holds the integers up to 2^53 and, between 2^53 and 2^54, the     *)
(* even ones (round to nearest, ties to even mantissa).                    *)
(***************************************************************************)
Float64(x) ==
    IF x.e53 = 0 THEN x
    ELSE [e53 |-> 1,
          n |-> CASE x.n % 4 = 1 -> x.n - 1
                  [] x.n % 4 = 3 -> x.n + 1
                  [] OTHER -> x.n]

RECURSIVE JsonToAny(_)
JsonToAny(w) ==
    CASE w.k = "number" -> [k |-> "number", v |-> Float64(w.v)]
      [] w.k = "array" -> Array([i \in 1..Len(w.v) |-> JsonToAny(w.v[i])])
      [] w.k = "object" -> JsonObject([x \in DOMAIN w.v |-> JsonToAny(w.v[x])])
      [] OTHER -> w

(***************************************************************************)
(* FileDetails and AssetMetadata.                                          *)
(***************************************************************************)
ZeroFileDetails ==
    [Name |-> <<>>, MediaType |-> <<>>, Src |-> [Uris |-> NilSlice], Extra |-> EmptyMap]

ZeroAssetMetadata ==
    [Name |-> <<>>, Image |-> [Uris |-> NilSlice], MediaType |-> <<>>,
     Description |-> [Descriptions |-> NilSlice], Files |-> <<>>, Extra |-> EmptyMap]

\* json.Unmarshal(data, &raw) with var raw map[string]any.
JsonUnmarshalMap(data) ==
    IF data.k = "object" THEN [err |-> FALSE, val |-> JsonToAny(data).v]
    ELSE IF data.k = "null" THEN [err |-> FALSE, val |-> EmptyMap]
    ELSE [err |-> TRUE, val |-> EmptyMap]

\* The loop over the keys of raw, from the i-th key of the order on.
RECURSIVE FileDetailsFields(_, _, _, _)
FileDetailsFields(f, raw, keys, i) ==
    IF i > Len(keys) THEN Ok(f)
    ELSE LET key == keys[i]
             v == raw[key]
         IN  IF key = nameKey
             THEN FileDetailsFields(IF v.k = "string" THEN [f EXCEPT !.Name = v.v] ELSE f,
                                    raw, keys, i + 1)
             ELSE IF key = mediaTypeKey
             THEN FileDetailsFields(IF v.k = "string" THEN [f EXCEPT !.MediaType = v.v] ELSE f,
                                    raw, keys, i + 1)
             ELSE IF key = srcKey
             THEN LET r == UriField_UnmarshalJSON(f.Src, v)
                  IN  IF r.err # "nil" THEN Fail(f)
                      ELSE FileDetailsFields([f EXCEPT !.Src = r.c], raw, keys, i + 1)
             ELSE FileDetailsFields([f EXCEPT !.Extra = MapSet(@, key, v)],
                                    raw, keys, i + 1)

FileDetails_UnmarshalJSON(f, data, rev) ==
    LET raw == JsonUnmarshalMap(data)
    IN  IF raw.err THEN Fail(f)
        ELSE FileDetailsFields([f EXCEPT !.Extra = EmptyMap], raw.val,
                               Range(raw.val, rev), 1)

\* case "files": every element is decoded into a new FileDetails and
\* appended to a.Files.
RECURSIVE AppendFiles(_, _, _, _)
AppendFiles(a, files, i, rev) ==
    IF i > Len(files) THEN Ok(a)
    ELSE LET r == FileDetails_UnmarshalJSON(ZeroFileDetails, files[i], rev)
         IN  IF r.err # "nil" THEN Fail(a)
             ELSE AppendFiles([a EXCEPT !.Files = Append(@, r.c)], files, i + 1, rev)

\* The loop over the keys of raw, from the i-th key of the order on.
RECURSIVE AssetMetadataFields(_, _, _, _, _)
AssetMetadataFields(a, raw, keys, i, rev) ==
    IF i > Len(keys) THEN Ok(a)
    ELSE LET key == keys[i]
             v == raw[key]
         IN  IF key = nameKey
             THEN AssetMetadataFields(IF v.k = "string" THEN [a EXCEPT !.Name = v.v] ELSE a,
                                      raw, keys, i + 1, rev)
             ELSE IF key = imageKey
             THEN LET r == UriField_UnmarshalJSON(a.Image, v)
                  IN  IF r.err # "nil" THEN Fail(a)
                      ELSE AssetMetadataFields([a EXCEPT !.Image = r.c],
                                               raw, keys, i + 1, rev)
             ELSE IF key = mediaTypeKey
             THEN AssetMetadataFields(IF v.k = "string" THEN [a EXCEPT !.MediaType = v.v] ELSE a,
                                      raw, keys, i + 1, rev)
             ELSE IF key = descriptionKey
             THEN LET r == DescField_UnmarshalJSON(a.Description, v)
                  IN  IF r.err # "nil" THEN Fail(a)
                      ELSE AssetMetadataFields([a EXCEPT !.Description = r.c],
                                               raw, keys, i + 1, rev)
             ELSE IF key = filesKey
             THEN IF v.k # "array"
                  THEN AssetMetadataFields(a, raw, keys, i + 1, rev)
                  ELSE LET r == AppendFiles(a, v.v, 1, rev)
                       IN  IF r.err # "nil" THEN r
                           ELSE AssetMetadataFields(r.c, raw, keys, i + 1, rev)
             ELSE AssetMetadataFields([a EXCEPT !.Extra = MapSet(@, key, v)],
                                      raw, keys, i + 1, rev)

AssetMetadata_UnmarshalJSON(a, data, rev) ==
    LET raw == JsonUnmarshalMap(data)
    IN  IF raw.err THEN Fail(a)
        ELSE AssetMetadataFields([a EXCEPT !.Extra = EmptyMap], raw.val,
                                 Range(raw.val, rev), 1, rev)

\* json.Marshal of a FileDetails: the struct's tagged fields, Extra left out.
FileDetails_MarshalJSON(f) ==
    JsonObject(MapSet(MapSet(MapSet(EmptyMap, nameKey, JsonString(f.Name)),
                             mediaTypeKey, JsonString(f.MediaType)),
                      srcKey, UriField_MarshalJSON(f.Src)))

\* out as it is before maps.Copy(out, a.Extra).
AssetMetadataTyped(a) ==
    LET o1 == MapSet(MapSet(EmptyMap, nameKey, JsonString(a.Name)),
                     imageKey, UriField_MarshalJSON(a.Image))
        o2 == IF a.MediaType # <<>>
              THEN MapSet(o1, mediaTypeKey, JsonString(a.MediaType)) ELSE o1
        o3 == IF len(a.Description.Descriptions) > 0
              THEN MapSet(o2, descriptionKey, DescField_MarshalJSON(a.Description)) ELSE o2
    IN  IF Len(a.Files) > 0
        THEN MapSet(o3, filesKey,
                    Array([i \in 1..Len(a.Files) |-> FileDetails_MarshalJSON(a.Files[i])]))
        ELSE o3

AssetMetadata_MarshalJSON(a) == JsonObject(MapsCopy(AssetMetadataTyped(a), a.Extra))

(***************************************************************************)
(* AssetMetadata in CBOR: the struct has no CBOR methods of its own, the   *)
(* library writes it as a map of its tagged fields in the order of the     *)
(* struct and reads it from such a map, ignoring unknown keys.  Extra is   *)
(* not part of the binary form.                                            *)
(***************************************************************************)
Entry(key, val) == [key |-> key, val |-> val]

FileDetails_EncodeCBOR(f) ==
    CborMap(<<Entry(CborText(nameKey), CborText(f.Name)),
              Entry(CborText(mediaTypeKey), CborText(f.MediaType)),
              Entry(CborText(srcKey), UriField_MarshalCBOR(f.Src))>>)

AssetMetadata_EncodeCBOR(a) ==
    CborMap(<<Entry(CborText(nameKey), CborText(a.Name)),
              Entry(CborText(imageKey), UriField_MarshalCBOR(a.Image))>>
            \o (IF a.MediaType # <<>>
                THEN <<Entry(CborText(mediaTypeKey), CborText(a.MediaType))>> ELSE <<>>)
            \o <<Entry(CborText(descriptionKey), DescField_MarshalCBOR(a.Description))>>
            \o (IF Len(a.Files) > 0
                THEN <<Entry(CborText(filesKey),
                             Array([i \in 1..Len(a.Files) |->
                                       FileDetails_EncodeCBOR(a.Files[i])]))>>
                ELSE <<>>))

\* The entries of a CBOR map are read one after the other into the struct.
RECURSIVE FileDetailsEntries(_, _, _)
FileDetailsEntries(f, entries, i) ==
    IF i > Len(entries) THEN Ok(f)
    ELSE LET key == entries[i].key
             v == entries[i].val
         IN  IF key = CborText(nameKey)
             THEN LET r == CborUnmarshalString(v)
                  IN  IF r.err THEN Fail(f)
                      ELSE FileDetailsEntries(
                               IF v.k = "text" THEN [f EXCEPT !.Name = r.val] ELSE f,
                               entries, i + 1)
             ELSE IF key = CborText(mediaTypeKey)
             THEN LET r == CborUnmarshalString(v)
                  IN  IF r.err THEN Fail(f)
                      ELSE FileDetailsEntries(
                               IF v.k = "text" THEN [f EXCEPT !.MediaType = r.val] ELSE f,
                               entries, i + 1)
             ELSE IF key = CborText(srcKey)
             THEN LET r == UriField_UnmarshalCBOR(f.Src, v)
                  IN  IF r.err # "nil" THEN Fail(f)
                      ELSE FileDetailsEntries([f EXCEPT !.Src = r.c], entries, i + 1)
             ELSE FileDetailsEntries(f, entries, i + 1)

FileDetails_DecodeCBOR(f, item) ==
    IF item.k = "null" THEN Ok(f)
    ELSE IF item.k # "map" THEN Fail(f)
    ELSE FileDetailsEntries(f, item.v, 1)

\* cbor.Unmarshal into a.Files: a new slice of as many elements as the array.
DecodeFiles(item) ==
    IF item.k = "null" THEN [err |-> FALSE, val |-> <<>>]
    ELSE IF item.k # "array" THEN [err |-> TRUE, val |-> <<>>]
    ELSE LET each == [i \in 1..Len(item.v) |->
                         FileDetails_DecodeCBOR(ZeroFileDetails, item.v[i])]
         IN  IF \E i \in 1..Len(item.v) : each[i].err # "nil"
             THEN [err |-> TRUE, val |-> <<>>]
             ELSE [err |-> FALSE, val |-> [i \in 1..Len(item.v) |-> each[i].c]]

RECURSIVE AssetMetadataEntries(_, _, _)
AssetMetadataEntries(a, entries, i) ==
    IF i > Len(entries) THEN Ok(a)
    ELSE LET key == entries[i].key
             v == entries[i].val
         IN  IF key = CborText(nameKey)
             THEN LET r == CborUnmarshalString(v)
                  IN  IF r.err THEN Fail(a)
                      ELSE AssetMetadataEntries(
                               IF v.k = "text" THEN [a EXCEPT !.Name = r.val] ELSE a,
                               entries, i + 1)
             ELSE IF key = CborText(imageKey)
             THEN LET r == UriField_UnmarshalCBOR(a.Image, v)
                  IN  IF r.err # "nil" THEN Fail(a)
                      ELSE AssetMetadataEntries([a EXCEPT !.Image = r.c], entries, i + 1)
             ELSE IF key = CborText(mediaTypeKey)
             THEN LET r == CborUnmarshalString(v)
                  IN  IF r.err THEN Fail(a)
                      ELSE AssetMetadataEntries(
                               IF v.k = "text" THEN [a EXCEPT !.MediaType = r.val] ELSE a,
                               entries, i + 1)
             ELSE IF key = CborText(descriptionKey)
             THEN LET r == DescField_UnmarshalCBOR(a.Description, v)
                  IN  IF r.err # "nil" THEN Fail(a)
                      ELSE AssetMetadataEntries([a EXCEPT !.Description = r.c],
                                                entries, i + 1)
             ELSE IF key = CborText(filesKey)
             THEN LET r == DecodeFiles(v)
                  IN  IF r.err THEN Fail(a)
                      ELSE AssetMetadataEntries([a EXCEPT !.Files = r.val], entries, i + 1)
             ELSE AssetMetadataEntries(a, entries, i + 1)

\* cbor.Unmarshal(assetBytes, &asset)
AssetMetadata_DecodeCBOR(a, item) ==
    IF item.k = "null" THEN Ok(a)
    ELSE IF item.k # "map" THEN Fail(a)
    ELSE AssetMetadataEntries(a, item.v, 1)

(***************************************************************************)
(* encoding/hex                                                            *)
(***************************************************************************)
\* The value of a hexadecimal digit, -1 for any other byte.
FromHexChar(c) ==
    IF c \in 48..57 THEN c - 48
    ELSE IF c \in 97..102 THEN c - 87
    ELSE IF c \in 65..70 THEN c - 55
    ELSE -1

\* hex.DecodeString(s) returns no error.
HexValid(s) ==
    /\ Len(s) % 2 = 0
    /\ \A i \in 1..Len(s) : FromHexChar(s[i]) >= 0

\* hex.DecodeString(s), for a valid s.
DecodeString(s) ==
    [i \in 1..(Len(s) \div 2) |-> 16 * FromHexChar(s[2 * i - 1]) + FromHexChar(s[2 * i])]

\* A digit of "0123456789abcdef".
HexChar(n) == IF n < 10 THEN 48 + n ELSE 87 + n

\* Variant: the digits above 9 are written in upper case.
EncodeToString_Upper(b) ==
    [i \in 1..(2 * Len(b)) |->
        LET n == IF i % 2 = 1 THEN b[(i + 1) \div 2] \div 16 ELSE b[i \div 2] % 16
        IN  IF n < 10 THEN 48 + n ELSE 55 + n]

\* hex.EncodeToString(b)
EncodeToString(b) ==
    [i \in 1..(2 * Len(b)) |->
        IF i % 2 = 1 THEN HexChar(b[(i + 1) \div 2] \div 16)
                     ELSE HexChar(b[i \div 2] % 16)]

(***************************************************************************)
(* Num721                                                                  *)
(***************************************************************************)
ZeroNum721 == [Version |-> 0, Policies |-> EmptyMap]

\* string(keys[i]) < string(keys[j]): the order of the bytes.
RECURSIVE StringLess(_, _)
StringLess(a, b) ==
    IF Len(b) = 0 THEN FALSE
    ELSE IF Len(a) = 0 THEN TRUE
    ELSE IF a[1] # b[1] THEN a[1] < b[1]
    ELSE StringLess(Tail(a), Tail(b))

\* sort.Slice(keys, less) on keys that are all different.
RECURSIVE SortKeys(_)
SortKeys(keys) ==
    IF Len(keys) = 0 THEN <<>>
    ELSE LET least == CHOOSE i \in 1..Len(keys) :
                          \A j \in 1..Len(keys) : j # i => StringLess(keys[i], keys[j])
         IN  <<keys[least]>>
             \o SortKeys([j \in 1..(Len(keys) - 1) |->
                             IF j < least THEN keys[j] ELSE keys[j + 1]])

\* Variant: a version 2 key is written as text, like a version 1 key.
EncodeKey_AlwaysText(key, version) == CborText(key)

\* The key of a policy or of an asset as MarshalCBOR writes it.
EncodeKey(key, version) ==
    IF version = 2
    THEN IF HexValid(key) THEN Bytes(DecodeString(key)) ELSE Bytes(key)
    ELSE CborText(key)

\* Variant: a version 2 byte-string key is kept as the text of its bytes.
DecodeKey_RawBytes(key, version) ==
    IF version = 2
    THEN IF key.k = "text" THEN [err |-> FALSE, val |-> key.v]
         ELSE IF key.k = "bytes" THEN [err |-> FALSE, val |-> key.v]
         ELSE [err |-> TRUE, val |-> <<>>]
    ELSE IF key.k = "text" THEN [err |-> FALSE, val |-> key.v]
         ELSE [err |-> TRUE, val |-> <<>>]

\* The key of a policy or of an asset as UnmarshalCBOR reads it.
DecodeKey(key, version) ==
    IF version = 2
    THEN IF key.k = "text" THEN [err |-> FALSE, val |-> key.v]
         ELSE IF key.k = "bytes" THEN [err |-> FALSE, val |-> EncodeToString(key.v)]
         ELSE [err |-> TRUE, val |-> <<>>]
    ELSE IF key.k = "text" THEN [err |-> FALSE, val |-> key.v]
         ELSE [err |-> TRUE, val |-> <<>>]

\* The inner map of a policy, its keys in the order of the sort.
EncodeAssets(inner, version, rev) ==
    LET innerKeys == SortKeys(Range(inner, rev))
    IN  CborMap([i \in 1..Len(innerKeys) |->
                    Entry(EncodeKey(innerKeys[i], version),
                          AssetMetadata_EncodeCBOR(inner[innerKeys[i]]))])

\* Variant: the keys are written in the order of the range statement.
Num721_MarshalCBOR_Unsorted(n, rev) ==
    LET keys == Range(n.Policies, rev)
    IN  CborMap((IF n.Version # 1
                 THEN <<Entry(CborText(versionKey), UInt(n.Version))>> ELSE <<>>)
                \o [i \in 1..Len(keys) |->
                       Entry(EncodeKey(keys[i], n.Version),
                             EncodeAssets(n.Policies[keys[i]], n.Version, rev))])

Num721_MarshalCBOR(n, rev) ==
    LET keys == SortKeys(Range(n.Policies, rev))
    IN  CborMap((IF n.Version # 1
                 THEN <<Entry(CborText(versionKey), UInt(n.Version))>> ELSE <<>>)
                \o [i \in 1..Len(keys) |->
                       Entry(EncodeKey(keys[i], n.Version),
                             EncodeAssets(n.Policies[keys[i]], n.Version, rev))])

\* Of the entries of a CBOR map that carry the same key the last one stays.
LastWins(entries) ==
    LET idx == SelectSeq([i \in 1..Len(entries) |-> i],
                         LAMBDA i : \A j \in (i + 1)..Len(entries) :
                                       entries[j].key # entries[i].key)
    IN  [j \in 1..Len(idx) |-> entries[idx[j]]]

\* cbor.Unmarshal(data, &raw) with var raw map[any]any: the entries of the
\* map in one of the orders of a range statement.
CborUnmarshalMap(data, rev) ==
    IF data.k = "map"
    THEN [err |-> FALSE,
          val |-> IF rev THEN Reverse(LastWins(data.v)) ELSE LastWins(data.v)]
    ELSE IF data.k = "null" THEN [err |-> FALSE, val |-> <<>>]
    ELSE [err |-> TRUE, val |-> <<>>]

IsVersionKey(key) == key = CborText(versionKey)

\* The loop over the assets of one policy, from the i-th entry on.
RECURSIVE DecodeAssets(_, _, _, _)
DecodeAssets(assets, entries, i, version) ==
    IF i > Len(entries) THEN [err |-> FALSE, val |-> assets]
    ELSE LET ak == DecodeKey(entries[i].key, version)
             asset == AssetMetadata_DecodeCBOR(ZeroAssetMetadata, entries[i].val)
         IN  IF ak.err \/ asset.err # "nil" THEN [err |-> TRUE, val |-> assets]
             ELSE DecodeAssets(MapSet(assets, ak.val, asset.c), entries, i + 1, version)

\* The loop over the policies, from the i-th entry on.
RECURSIVE DecodePolicies(_, _, _, _)
DecodePolicies(n, entries, i, rev) ==
    IF i > Len(entries) THEN Ok(n)
    ELSE IF IsVersionKey(entries[i].key) THEN DecodePolicies(n, entries, i + 1, rev)
    ELSE LET k == DecodeKey(entries[i].key, n.Version)
             policyMap == CborUnmarshalMap(entries[i].val, rev)
         IN  IF k.err THEN Fail(n)
             ELSE IF entries[i].val.k # "map" THEN Fail(n)
             ELSE LET assets == DecodeAssets(EmptyMap, policyMap.val, 1, n.Version)
                  IN  IF assets.err THEN Fail(n)
                      ELSE DecodePolicies(
                               [n EXCEPT !.Policies = MapSet(@, k.val, assets.val)],
                               entries, i + 1, rev)

\* The version entry of raw: "none", or the value under the key "version".
VersionEntry(entries) ==
    IF \E i \in 1..Len(entries) : IsVersionKey(entries[i].key)
    THEN entries[CHOOSE i \in 1..Len(entries) : IsVersionKey(entries[i].key)].val
    ELSE [k |-> "none", v |-> 0]

\* Variant: without a version entry the version is left as it is.
Num721_UnmarshalCBOR_NoDefault(n, data, rev) ==
    LET raw == CborUnmarshalMap(data, rev)
        version == VersionEntry(raw.val)
    IN  IF raw.err THEN Fail(n)
        ELSE IF version.k = "uint" /\ version.v > 100 THEN Fail(n)
        ELSE LET n1 == IF version.k = "uint" THEN [n EXCEPT !.Version = version.v] ELSE n
             IN  DecodePolicies([n1 EXCEPT !.Policies = EmptyMap], raw.val, 1, rev)

Num721_UnmarshalCBOR(n, data, rev) ==
    LET raw == CborUnmarshalMap(data, rev)
        version == VersionEntry(raw.val)
    IN  IF raw.err THEN Fail(n)
        ELSE IF version.k = "uint" /\ version.v > 100 THEN Fail(n)
        ELSE LET n1 == IF version.k = "uint" THEN [n EXCEPT !.Version = version.v] ELSE n
                 n2 == IF n1.Version = 0 THEN [n1 EXCEPT !.Version = 1] ELSE n1
             IN  DecodePolicies([n2 EXCEPT !.Policies = EmptyMap], raw.val, 1, rev)

\* strconv.ParseFloat(s, 64) for an optional sign followed by "inf",
\* "infinity" or (unsigned) "nan" in any letter case, or by decimal digits
\* with at most one point.  Exponents, hexadecimal literals and underscores,
\* which the function also accepts, are not offered, and neither are
\* literals long enough for the rounding to float64 to matter.  A finite
\* result is num / den, negated when neg.
RECURSIVE DecimalValue(_)
DecimalValue(s) ==
    IF Len(s) = 0 THEN 0
    ELSE 10 * DecimalValue(SubSeq(s, 1, Len(s) - 1)) + (s[Len(s)] - 48)

RECURSIVE Pow10(_)
Pow10(n) == IF n = 0 THEN 1 ELSE 10 * Pow10(n - 1)

lower(s) == [i \in 1..Len(s) |-> IF s[i] \in 65..90 THEN s[i] + 32 ELSE s[i]]

Finite(neg, num, den) == [class |-> "finite", neg |-> neg, num |-> num, den |-> den]
Inf(neg) == [class |-> "inf", neg |-> neg, num |-> 0, den |-> 1]
NaN == [class |-> "nan", neg |-> FALSE, num |-> 0, den |-> 1]

ParseFloat(s) ==
    LET signed == Len(s) > 0 /\ s[1] \in {43, 45}
        neg == Len(s) > 0 /\ s[1] = 45
        body == IF signed THEN Tail(s) ELSE s
        points == {i \in 1..Len(body) : body[i] = 46}
        digits == SelectSeq(body, LAMBDA ch : ch \in 48..57)
        point == CHOOSE i \in points : TRUE
    IN  IF lower(body) \in {<<105, 110, 102>>, <<105, 110, 102, 105, 110, 105, 116, 121>>}
        THEN [err |-> FALSE, val |-> Inf(neg)]
        ELSE IF ~signed /\ lower(body) = <<110, 97, 110>>
        THEN [err |-> FALSE, val |-> NaN]
        ELSE IF /\ Len(digits) > 0
                /\ Len(digits) + Cardinality(points) = Len(body)
                /\ Cardinality(points) <= 1
        THEN [err |-> FALSE,
              val |-> Finite(neg, DecimalValue(digits),
                             IF points = {} THEN 1 ELSE Pow10(Len(body) - point))]
        ELSE [err |-> TRUE, val |-> Finite(FALSE, 0, 1)]

\* int(f) of a finite float64: the fraction is discarded.
int(f) == IF f.neg THEN 0 - (f.num \div f.den) ELSE f.num \div f.den

\* val < 0 and val > 1 of float64; both are false of NaN.
LessThanZero(f) == f.neg /\ (f.class = "inf" \/ (f.class = "finite" /\ f.num > 0))
GreaterThanOne(f) == ~f.neg /\ (f.class = "inf" \/ (f.class = "finite" /\ f.num > f.den))

\* The loop over the assets of one policy object, from the i-th key on.
RECURSIVE DecodeAssetsJSON(_, _, _, _, _)
DecodeAssetsJSON(assets, policyMap, keys, i, rev) ==
    IF i > Len(keys) THEN [err |-> FALSE, val |-> assets]
    ELSE LET asset == AssetMetadata_UnmarshalJSON(ZeroAssetMetadata, policyMap[keys[i]], rev)
         IN  IF asset.err # "nil" THEN [err |-> TRUE, val |-> assets]
             ELSE DecodeAssetsJSON(MapSet(assets, keys[i], asset.c),
                                   policyMap, keys, i + 1, rev)

\* The loop over the keys of raw, from the i-th key on.
RECURSIVE DecodePoliciesJSON(_, _, _, _, _)
DecodePoliciesJSON(n, raw, keys, i, rev) ==
    IF i > Len(keys) THEN Ok(n)
    ELSE IF keys[i] = versionKey THEN DecodePoliciesJSON(n, raw, keys, i + 1, rev)
    ELSE IF raw[keys[i]].k # "object" THEN DecodePoliciesJSON(n, raw, keys, i + 1, rev)
    ELSE LET policyMap == raw[keys[i]].v
             assets == DecodeAssetsJSON(EmptyMap, policyMap, Range(policyMap, rev), 1, rev)
         IN  IF assets.err THEN Fail(n)
             ELSE DecodePoliciesJSON([n EXCEPT !.Policies = MapSet(@, keys[i], assets.val)],
                                     raw, keys, i + 1, rev)

\* The version after the switch on the type of raw["version"]; the numbers
\* offered are below 2^53.
VersionFromJSON(n, raw) ==
    IF versionKey \in DOMAIN raw
    THEN LET v == raw[versionKey]
         IN  IF v.k = "number" THEN v.v.n
             ELSE IF v.k = "string" /\ ~ParseFloat(v.v).err THEN int(ParseFloat(v.v).val)
             ELSE n.Version
    ELSE 1

Num721_UnmarshalJSON(n, data, rev) ==
    LET raw == JsonUnmarshalMap(data)
    IN  IF raw.err THEN Fail(n)
        ELSE DecodePoliciesJSON([Version |-> VersionFromJSON(n, raw.val),
                                 Policies |-> EmptyMap],
                                raw.val, Range(raw.val, rev), 1, rev)

\* The assets of one policy as json.Marshal writes the map.
AssetsJSON(assets) ==
    JsonObject([asset \in DOMAIN assets |-> AssetMetadata_MarshalJSON(assets[asset])])

\* out["version"] is set first, so a policy stored under "version" replaces it.
Num721_MarshalJSON(n) ==
    JsonObject(MapsCopy(IF n.Version # 1
                        THEN MapSet(EmptyMap, versionKey, JsonNumber(0, n.Version))
                        ELSE EmptyMap,
                        [policy \in DOMAIN n.Policies |-> AssetsJSON(n.Policies[policy])]))

(***************************************************************************)
(* CIP-27 royalty metadata: Cip777 and Cip27Metadata.  A *string is a      *)
(* record of whether it is nil and the string it points to.  The keys      *)
(* offered are written in lower case; encoding/json also matches a key     *)
(* that differs from the field name in letter case only.                   *)
(***************************************************************************)
rateKey == <<114, 97, 116, 101>>
pctKey == <<112, 99, 116>>
addrKey == <<97, 100, 100, 114>>
num777Key == <<55, 55, 55>>

NilString == [isNil |-> TRUE, s |-> <<>>]
StringPtr(s) == [isNil |-> FALSE, s |-> s]

ZeroAddrField == [Addresses |-> NilSlice]

ZeroCip777 ==
    [Rate |-> <<>>, pctRaw |-> NilString, rateRaw |-> NilString, Addr |-> ZeroAddrField]

ZeroCip27Metadata == [Num777 |-> ZeroCip777]

\* json.Unmarshal of one member into a *string field: null leaves it nil.
JsonUnmarshalStringPtr(m, key) ==
    IF key \notin DOMAIN m \/ m[key].k = "null" THEN [err |-> FALSE, val |-> NilString]
    ELSE IF m[key].k = "string" THEN [err |-> FALSE, val |-> StringPtr(m[key].v)]
    ELSE [err |-> TRUE, val |-> NilString]

\* json.Unmarshal(data, &raw) into the temporary struct of
\* Cip777.UnmarshalJSON: null leaves raw as it is, unknown keys are skipped.
Cip777Raw(data) ==
    IF data.k = "null"
    THEN [err |-> FALSE, Pct |-> NilString, Rate |-> NilString, Addr |-> ZeroAddrField]
    ELSE IF data.k # "object"
    THEN [err |-> TRUE, Pct |-> NilString, Rate |-> NilString, Addr |-> ZeroAddrField]
    ELSE LET pct == JsonUnmarshalStringPtr(data.v, pctKey)
             rate == JsonUnmarshalStringPtr(data.v, rateKey)
             addr == IF addrKey \in DOMAIN data.v
                     THEN AddrField_UnmarshalJSON(ZeroAddrField, data.v[addrKey])
                     ELSE Ok(ZeroAddrField)
         IN  [err |-> pct.err \/ rate.err \/ addr.err # "nil",
              Pct |-> pct.val, Rate |-> rate.val, Addr |-> addr.c]

\* Variant: the legacy field is looked at first.
Cip777_UnmarshalJSON_PctFirst(c, data) ==
    LET raw == Cip777Raw(data)
        c1 == [c EXCEPT !.pctRaw = raw.Pct, !.rateRaw = raw.Rate, !.Addr = raw.Addr]
    IN  IF raw.err THEN Fail(c)
        ELSE IF ~raw.Pct.isNil THEN Ok([c1 EXCEPT !.Rate = raw.Pct.s])
        ELSE IF ~raw.Rate.isNil THEN Ok([c1 EXCEPT !.Rate = raw.Rate.s])
        ELSE Fail(c)

Cip777_UnmarshalJSON(c, data) ==
    LET raw == Cip777Raw(data)
        c1 == [c EXCEPT !.pctRaw = raw.Pct, !.rateRaw = raw.Rate, !.Addr = raw.Addr]
    IN  IF raw.err THEN Fail(c)
        ELSE IF ~raw.Rate.isNil THEN Ok([c1 EXCEPT !.Rate = raw.Rate.s])
        ELSE IF ~raw.Pct.isNil THEN Ok([c1 EXCEPT !.Rate = raw.Pct.s])
        ELSE Fail(c)

\* validate.Struct(c) finds nothing to report: the only tags are "required"
\* on fields of struct type, which a validator built without
\* WithRequiredStructEnabled does not apply.
Cip27Metadata_Validate(c) ==
    LET val == ParseFloat(c.Num777.Rate)
    IN  IF val.err THEN "error"
        ELSE IF LessThanZero(val.val) \/ GreaterThanOne(val.val) THEN "error"
        ELSE IF len(c.Num777.Addr.Addresses) = 0 THEN "error"
        ELSE "nil"

\* Variant: the decoded value is returned without c.Validate().
Cip27Metadata_UnmarshalJSON_NoGate(c, data) ==
    IF data.k \notin {"object", "null"} THEN Fail(c)
    ELSE IF data.k = "null" \/ num777Key \notin DOMAIN data.v THEN Fail(c)
    ELSE LET r == Cip777_UnmarshalJSON(c.Num777, data.v[num777Key])
         IN  IF r.err # "nil" THEN Fail(c) ELSE Ok([c EXCEPT !.Num777 = r.c])

\* The receiver keeps the decoded Num777 when the validation fails.
Cip27Metadata_UnmarshalJSON(c, data) ==
    IF data.k \notin {"object", "null"} THEN Fail(c)
    ELSE IF data.k = "null" \/ num777Key \notin DOMAIN data.v THEN Fail(c)
    ELSE LET r == Cip777_UnmarshalJSON(c.Num777, data.v[num777Key])
             c1 == [c EXCEPT !.Num777 = r.c]
         IN  IF r.err # "nil" THEN Fail(c)
             ELSE IF Cip27Metadata_Validate(c1) # "nil" THEN Fail(c1)
             ELSE Ok(c1)

\* A returned *T is the value it points to; Null is the nil pointer.
Pointer(x) == [k |-> "pointer", v |-> x]

\* Variant: only the struct tags are run, as the other constructors do.
NewCip27Metadata_TagsOnly(rate, addresses) ==
    [err |-> "nil",
     out |-> Pointer([Num777 |-> [ZeroCip777 EXCEPT !.Rate = rate,
                                                    !.Addr = [Addresses |-> addresses]]])]

NewCip27Metadata(rate, addresses) ==
    LET meta == [Num777 |-> [ZeroCip777 EXCEPT !.Rate = rate,
                                               !.Addr = [Addresses |-> addresses]]]
    IN  IF Cip27Metadata_Validate(meta) # "nil"
        THEN [err |-> "error", out |-> Null]
        ELSE [err |-> "nil", out |-> Pointer(meta)]

(***************************************************************************)
(* CIP-20 comment metadata: Cip20Metadata and Num674.  The type has no     *)
(* codec method of its own: it is decoded by encoding/json from its struct *)
(* tags.  The validation is the one of the struct tags, required on the    *)
(* field of struct type being left out by a validator built without        *)
(* WithRequiredStructEnabled.                                              *)
(***************************************************************************)
MsgMax == 64

num674Key == <<54, 55, 52>>
msgKey == <<109, 115, 103>>

ZeroCip20Metadata == [Num674 |-> [Msg |-> NilSlice]]

\* utf8.RuneCountInString of valid UTF-8: the bytes that do not continue a
\* character.
RuneCountInString(s) == Cardinality({i \in 1..Len(s) : s[i] \notin 128..191})

\* Variant: the length of a message is counted in bytes.
Cip20Metadata_Validate_Bytes(c) ==
    LET msg == c.Num674.Msg
    IN  IF msg.isNil THEN "error"
        ELSE IF ~(len(msg) > 0) THEN "error"
        ELSE IF \E i \in 1..len(msg) : ~(Len(msg.elems[i]) <= MsgMax) THEN "error"
        ELSE "nil"

\* validate:"required,gt=0,dive,max=64" on Msg.
Cip20Metadata_Validate(c) ==
    LET msg == c.Num674.Msg
    IN  IF msg.isNil THEN "error"
        ELSE IF ~(len(msg) > 0) THEN "error"
        ELSE IF \E i \in 1..len(msg) : ~(RuneCountInString(msg.elems[i]) <= MsgMax)
        THEN "error"
        ELSE "nil"

NewCip20Metadata(messages) ==
    LET metadata == [Num674 |-> [Msg |-> messages]]
    IN  IF Cip20Metadata_Validate(metadata) # "nil"
        THEN [err |-> "error", out |-> Null]
        ELSE [err |-> "nil", out |-> Pointer(metadata)]

\* json.Unmarshal(data, &c) into a new Cip20Metadata.  A value of the wrong
\* type is skipped and reported when the whole input has been read; in an
\* array it leaves the empty string, as a null element does.
JsonUnmarshalMsg(c, v) ==
    IF v.k = "null" THEN Ok([Num674 |-> [Msg |-> NilSlice]])
    ELSE IF v.k # "array" THEN Fail(c)
    ELSE LET elems == [i \in 1..Len(v.v) |-> IF v.v[i].k = "string" THEN v.v[i].v ELSE <<>>]
             c1 == [Num674 |-> [Msg |-> Slice(elems)]]
         IN  IF \E i \in 1..Len(v.v) : v.v[i].k \notin {"string", "null"}
             THEN Fail(c1) ELSE Ok(c1)

JsonUnmarshalCip20Metadata(data) ==
    LET c == ZeroCip20Metadata
    IN  IF data.k = "null" THEN Ok(c)
        ELSE IF data.k # "object" THEN Fail(c)
        ELSE IF num674Key \notin DOMAIN data.v \/ data.v[num674Key].k = "null" THEN Ok(c)
        ELSE IF data.v[num674Key].k # "object" THEN Fail(c)
        ELSE IF msgKey \notin DOMAIN data.v[num674Key].v THEN Ok(c)
        ELSE JsonUnmarshalMsg(c, data.v[num674Key].v[msgKey])

(***************************************************************************)
(* Cip25Metadata: the validation of the struct tags and the construction   *)
(* helper.  A nil map and an empty map are the same value here; both fail  *)
(* the validation of Policies.                                             *)
(***************************************************************************)
ZeroCip25Metadata == [Num721 |-> ZeroNum721]

\* validate:"required,min=1" on Uris.
ValidUriField(u) == ~u.Uris.isNil /\ len(u.Uris) >= 1

\* validate:"required" on Name, MediaType and (through its field) Src.
ValidFileDetails(f) == f.Name # <<>> /\ f.MediaType # <<>> /\ ValidUriField(f.Src)

\* Variant: the files are not looked into.
ValidAssetMetadata_NoDive(a) == a.Name # <<>> /\ ValidUriField(a.Image)

\* validate:"required" on Name and (through its field) Image, "dive" on Files.
ValidAssetMetadata(a) ==
    /\ a.Name # <<>>
    /\ ValidUriField(a.Image)
    /\ \A i \in 1..Len(a.Files) : ValidFileDetails(a.Files[i])

\* validate:"min=1,max=2" on Version, "required,min=1,dive,dive" on Policies.
Cip25Metadata_Validate(c) ==
    IF /\ c.Num721.Version >= 1
       /\ c.Num721.Version <= 2
       /\ Cardinality(DOMAIN c.Num721.Policies) >= 1
       /\ \A policy \in DOMAIN c.Num721.Policies :
             \A asset \in DOMAIN c.Num721.Policies[policy] :
                ValidAssetMetadata(c.Num721.Policies[policy][asset])
    THEN "nil"
    ELSE "error"

NewCip25Metadata(version, policies) ==
    LET metadata == [Num721 |-> [Version |-> version, Policies |-> policies]]
    IN  IF Cip25Metadata_Validate(metadata) # "nil"
        THEN [err |-> "error", out |-> Null]
        ELSE [err |-> "nil", out |-> Pointer(metadata)]

(***************************************************************************)
(* The values the operations are applied to.                               *)
(***************************************************************************)
SeqsUpTo(S, n) == UNION {[1..m -> S] : m \in 0..n}

ByteStrings == {<<>>, <<97>>}
Strings == {<<>>, <<97>>, <<98>>}
Kinds == {"CardanoDnsMaybe", "CardanoDnsDomainRecord", "CardanoDnsDomain",
          "LegacyCardanoDnsDomain", "MiddleCardanoDnsDomain", "AddrField", "UriField", "DescField",
          "AssetMetadata", "Num721", "Cip777", "Cip27Metadata",
          "Cip20Metadata", "Cip25Metadata"}

\* Go values built by the caller.
Ttls == {NewCardanoDnsMaybe("CardanoDnsTtl", v) : v \in {Null} \cup {UInt(n) : n \in 0..MaxTtl}}

Records == [Lhs : ByteStrings, Ttl : Ttls, Type : ByteStrings, Rhs : ByteStrings]

SampleRecords ==
    {[Lhs |-> <<97>>, Ttl |-> NewCardanoDnsMaybe("CardanoDnsTtl", UInt(MaxTtl)),
      Type |-> <<>>, Rhs |-> <<97>>],
     [Lhs |-> <<>>, Ttl |-> NewCardanoDnsMaybe("CardanoDnsTtl", Null),
      Type |-> <<97>>, Rhs |-> <<>>],
     [Lhs |-> <<97>>, Ttl |-> NewCardanoDnsMaybe("CardanoDnsTtl", UInt(0)),
      Type |-> <<97>>, Rhs |-> <<>>]}

Domains ==
    [Origin : ByteStrings,
     Records : SeqsUpTo(SampleRecords, MaxRecords),
     AdditionalData : {NewCardanoDnsMaybe("any", v) : v \in {Null, UInt(MaxTtl)}}]

StringSlices == {NilSlice} \cup {Slice(e) : e \in SeqsUpTo(Strings, MaxItems)}

\* CBOR items offered to the decoders.
TtlItems ==
    {UInt(n) : n \in 0..MaxTtl}
    \cup {NewConstructor(i, [j \in 1..m |-> UInt(n)]) :
              i \in 0..MaxIndex, m \in 0..2, n \in 0..MaxTtl}
    \cup {Bytes(<<97>>), NewConstructor(0, <<Bytes(<<97>>)>>)}

RecordFieldLists ==
    {<<Bytes(l), t, Bytes(ty), Bytes(r)>> :
        l \in ByteStrings, t \in TtlItems, ty \in ByteStrings, r \in ByteStrings}
    \cup {<<Bytes(l), Bytes(ty), Bytes(r)>> :
              l \in ByteStrings, ty \in ByteStrings, r \in ByteStrings}
    \cup {[j \in 1..m |-> Bytes(<<97>>)] : m \in 0..MaxFields}
    \cup {<<UInt(0), UInt(0), Bytes(<<97>>), Bytes(<<>>)>>}

RecordItems ==
    {NewConstructor(i, f) : i \in 0..MaxIndex, f \in RecordFieldLists}
    \cup {UInt(0)}

SampleRecordItems ==
    {CardanoDnsDomainRecord_MarshalCBOR(r) : r \in SampleRecords}
    \cup {NewConstructor(1, <<Bytes(<<97>>), Bytes(<<>>), Bytes(<<97>>)>>),
          NewConstructor(1, <<Bytes(<<97>>), UInt(MaxTtl), Bytes(<<>>), Bytes(<<97>>)>>),
          NewConstructor(0, <<Bytes(<<97>>), NewConstructor(1, <<>>), Bytes(<<>>), Bytes(<<97>>)>>),
          NewConstructor(1, [j \in 1..MaxFields |-> Bytes(<<97>>)]),
          NewConstructor(1, <<Bytes(<<97>>), NewConstructor(MaxIndex, <<>>), Bytes(<<>>), Bytes(<<97>>)>>)}

DomainTails ==
    {<<>>, <<NewConstructor(1, <<>>)>>, <<NewConstructor(0, <<UInt(MaxTtl)>>)>>,
     <<NewConstructor(1, <<>>), UInt(0)>>}

DomainItems ==
    {CardanoDnsDomain_MarshalCBOR(d) : d \in Domains}
    \cup {NewConstructor(1, <<Bytes(<<97>>), Array(rs)>> \o tail) :
              rs \in SeqsUpTo(SampleRecordItems, MaxRecords), tail \in DomainTails}
    \cup {NewConstructor(i, <<Bytes(<<97>>), Array(<<>>)>> \o tail) :
              i \in 0..MaxIndex, tail \in DomainTails}
    \cup {NewConstructor(1, <<UInt(0), Array(<<>>)>>),
          NewConstructor(1, <<Bytes(<<97>>), UInt(0), NewConstructor(1, <<>>)>>),
          NewConstructor(1, <<Bytes(<<97>>), Array(<<UInt(0)>>)>>),
          UInt(0)}

\* Items decoded into a receiver that already holds a value.
ReuseRecordItems ==
    {NewConstructor(1, <<Bytes(<<>>), t, Bytes(<<97>>), Bytes(<<>>)>>) :
        t \in {NewConstructor(1, <<>>), NewConstructor(0, <<UInt(MaxTtl)>>), UInt(0)}}
    \cup {NewConstructor(0, <<>>)}

ReuseDomainItems ==
    {NewConstructor(i, <<Bytes(<<97>>), Array(rs)>> \o tail) :
        i \in {0, 1},
        rs \in {<<>>,
                <<NewConstructor(1, <<Bytes(<<97>>), Bytes(<<>>), Bytes(<<97>>)>>),
                  NewConstructor(1, <<>>)>>,
                <<NewConstructor(1, <<Bytes(<<97>>), NewConstructor(1, <<>>),
                                      Bytes(<<>>), Bytes(<<97>>)>>)>>},
        tail \in {<<>>, <<NewConstructor(1, <<>>)>>}}

\* JSON and CBOR values offered to the decoders of the flexible fields.
JsonFlexItems ==
    {JsonString(x) : x \in Strings}
    \cup {JsonMarshalStrings(Slice(e)) : e \in SeqsUpTo(Strings, MaxItems)}
    \cup {Null, JsonNumber(0, 1), JsonBool(TRUE), JsonObject(<<>>),
          Array(<<JsonString(<<97>>), JsonNumber(0, 1)>>),
          Array(<<JsonString(<<97>>), Null>>),
          Array(<<Array(<<>>)>>)}

CborFlexItems ==
    {CborText(x) : x \in Strings}
    \cup {CborMarshalStrings(Slice(e)) : e \in SeqsUpTo(Strings, MaxItems)}
    \cup {Null, UInt(1), JsonBool(TRUE), CborMap(<<>>), Bytes(<<97>>),
          Array(<<CborText(<<97>>), UInt(1)>>),
          Array(<<CborText(<<97>>), Null>>),
          Array(<<Bytes(<<97>>)>>)}

\* Keys of policies and assets: "6", "61", "6A", "6a", "zz" and "version".
SampleKeys == {<<54>>, <<54, 49>>, <<54, 65>>, <<54, 97>>, <<122, 122>>, versionKey}

xKey == <<120>>
idKey == <<105, 100>>

SampleAssets ==
    {[ZeroAssetMetadata EXCEPT !.Name = <<97>>, !.Image = [Uris |-> Slice(<<<<98>>>>)]],
     [ZeroAssetMetadata EXCEPT !.Name = <<98>>,
                               !.Image = [Uris |-> Slice(<<<<97>>, <<98>>>>)],
                               !.MediaType = <<97>>,
                               !.Description = [Descriptions |-> Slice(<<<<97>>>>)]]}

\* The maps of at most n entries with keys in K and values in V.
Maps(K, V, n) == UNION {[S -> V] : S \in {T \in SUBSET K : Cardinality(T) <= n}}

InnerMaps == Maps(SampleKeys, SampleAssets, MaxKeys)

SampleInner ==
    {EmptyMap} \cup {m \in InnerMaps : DOMAIN m \in {{<<54, 49>>}, {<<54, 65>>, <<54, 97>>}}
                                       /\ \A x \in DOMAIN m : m[x].MediaType = <<>>}

Num721s ==
    [Version : 0..MaxVersion,
     Policies : Maps(SampleKeys, SampleInner, MaxKeys)
                \cup {MapSet(EmptyMap, <<54, 49>>, inner) : inner \in InnerMaps}]

\* CBOR items offered to Num721.UnmarshalCBOR.
AssetItem == AssetMetadata_EncodeCBOR(CHOOSE a \in SampleAssets : a.MediaType = <<>>)

VersionItems == {UInt(0), UInt(1), UInt(2), UInt(100), UInt(101), CborText(<<50>>)}

PolicyEntries ==
    {<<>>,
     <<Entry(CborText(<<54, 49>>), CborMap(<<Entry(CborText(<<54, 49>>), AssetItem)>>))>>,
     <<Entry(Bytes(<<97>>), CborMap(<<Entry(Bytes(<<97>>), AssetItem)>>))>>,
     <<Entry(Bytes(<<97>>), CborMap(<<>>)), Entry(CborText(<<54, 49>>), CborMap(<<>>))>>,
     <<Entry(CborText(<<54, 49>>), CborMap(<<Entry(Bytes(<<106>>), AssetItem),
                                             Entry(CborText(<<54, 97>>), AssetItem)>>))>>,
     <<Entry(UInt(1), CborMap(<<>>))>>,
     <<Entry(CborText(<<54, 49>>), CborMap(<<Entry(UInt(1), AssetItem)>>))>>,
     <<Entry(CborText(<<54, 49>>), UInt(0))>>,
     <<Entry(CborText(<<54, 49>>), CborMap(<<Entry(CborText(<<54, 49>>), UInt(0))>>))>>,
     <<Entry(CborText(<<54>>), CborMap(<<>>)), Entry(UInt(1), CborMap(<<>>))>>}

Num721Items ==
    {Num721_MarshalCBOR(n, FALSE) : n \in Num721s}
    \cup {CborMap(p) : p \in PolicyEntries}
    \cup {CborMap(<<Entry(CborText(versionKey), v)>> \o p) :
              v \in VersionItems, p \in PolicyEntries}
    \cup {Null, UInt(0)}

ReuseNum721Items ==
    {CborMap(p) : p \in PolicyEntries}
    \cup {CborMap(<<Entry(CborText(versionKey), UInt(101))>>), UInt(0)}

\* JSON values offered to AssetMetadata.UnmarshalJSON.
Members(name, image, text, files, extra) ==
    MapsCopy(MapsCopy(MapsCopy(MapsCopy(name, image), text), files), extra)

FileJsonItem ==
    JsonObject(MapSet(MapSet(MapSet(EmptyMap, nameKey, JsonString(<<97>>)),
                             srcKey, JsonString(<<98>>)),
                      xKey, JsonNumber(1, 1)))

ExtraMembers ==
    {EmptyMap,
     MapSet(EmptyMap, xKey, JsonNumber(0, 1)),
     MapSet(EmptyMap, xKey, JsonNumber(1, 1)),
     MapSet(EmptyMap, xKey, JsonObject(MapSet(EmptyMap, nameKey, JsonString(<<98>>)))),
     MapSet(MapSet(EmptyMap, xKey, JsonString(<<97>>)),
            idKey, Array(<<Null, JsonBool(TRUE)>>))}

AssetJsonItems ==
    {JsonObject(Members(name, image, text, files, extra)) :
        name \in {EmptyMap} \cup {MapSet(EmptyMap, nameKey, v) :
                                     v \in {JsonString(<<97>>), JsonNumber(0, 1)}},
        image \in {EmptyMap} \cup {MapSet(EmptyMap, imageKey, v) :
                                      v \in {JsonString(<<98>>), JsonNumber(0, 1),
                                             Array(<<JsonString(<<97>>), JsonString(<<98>>)>>)}},
        text \in {EmptyMap, MapSet(EmptyMap, descriptionKey, JsonString(<<97>>)),
                         MapSet(EmptyMap, mediaTypeKey, JsonString(<<97>>))},
        files \in {EmptyMap} \cup {MapSet(EmptyMap, filesKey, v) :
                                      v \in {Array(<<FileJsonItem>>), JsonNumber(0, 1),
                                             Array(<<FileJsonItem, JsonNumber(0, 1)>>)}},
        extra \in ExtraMembers}
    \cup {Null, JsonNumber(0, 1)}

ReuseAssetJsonItems ==
    {JsonObject(Members(EmptyMap, image, EmptyMap, files, extra)) :
        image \in {EmptyMap, MapSet(EmptyMap, imageKey, JsonNumber(0, 1))},
        files \in {EmptyMap, MapSet(EmptyMap, filesKey, Array(<<FileJsonItem>>))},
        extra \in {EmptyMap, MapSet(EmptyMap, idKey, JsonString(<<97>>))}}

\* AssetMetadata values built by the caller, Extra set by hand.
AssetLiterals ==
    {[a EXCEPT !.Extra = extra] :
        a \in SampleAssets,
        extra \in {EmptyMap, MapSet(EmptyMap, xKey, JsonNumber(0, 1))}
                  \cup {MapSet(EmptyMap, key, v) :
                           key \in {nameKey, imageKey, mediaTypeKey, descriptionKey, filesKey},
                           v \in {JsonString(<<99>>), Null}}}

\* JSON values offered to Num721.UnmarshalJSON.
AssetJsonItem ==
    JsonObject(MapSet(MapSet(EmptyMap, nameKey, JsonString(<<97>>)),
                      imageKey, JsonString(<<98>>)))

VersionMembers ==
    {EmptyMap}
    \cup {MapSet(EmptyMap, versionKey, v) :
             v \in {JsonNumber(0, 0), JsonNumber(0, 1), JsonNumber(0, 2), JsonNumber(0, 100),
                    JsonNumber(0, 101), JsonString(<<50>>), JsonString(<<49, 48, 49>>),
                    JsonString(<<97>>), JsonBool(TRUE), Null}}

PolicyMembers ==
    {EmptyMap,
     MapSet(EmptyMap, <<54, 49>>, JsonObject(MapSet(EmptyMap, <<54, 49>>, AssetJsonItem))),
     MapSet(EmptyMap, <<54, 49>>, JsonNumber(0, 1)),
     MapSet(EmptyMap, <<54, 49>>,
            JsonObject(MapSet(EmptyMap, <<54, 49>>,
                              JsonObject(MapSet(EmptyMap, imageKey, JsonString(<<98>>)))))),
     MapSet(EmptyMap, <<54, 49>>, JsonObject(MapSet(EmptyMap, <<54, 49>>, JsonNumber(0, 1)))),
     MapSet(MapSet(EmptyMap, <<54, 49>>, JsonObject(EmptyMap)),
            <<122, 122>>, JsonObject(MapSet(EmptyMap, <<54>>, JsonNumber(0, 1))))}

Num721JsonItems ==
    {JsonObject(MapsCopy(v, p)) : v \in VersionMembers, p \in PolicyMembers}
    \cup {Null, JsonNumber(0, 1)}

\* Rates: "", "0", "1", "1.0", "0.5", ".5", "1.1", "-0.1", "-0", "2", "abc",
\* "NaN", "Inf" and "-inf".
RateStrings ==
    {<<>>, <<48>>, <<49>>, <<49, 46, 48>>, <<48, 46, 53>>, <<46, 53>>, <<49, 46, 49>>,
     <<45, 48, 46, 49>>, <<45, 48>>, <<50>>, <<97, 98, 99>>, <<78, 97, 78>>,
     <<73, 110, 102>>, <<45, 105, 110, 102>>}

AddressLists == {NilSlice, Slice(<<>>), Slice(<<<<>>>>), Slice(<<<<97>>, <<98>>>>)}

Cip27Literals ==
    {[Num777 |-> [ZeroCip777 EXCEPT !.Rate = r, !.Addr = [Addresses |-> a]]] :
        r \in RateStrings, a \in AddressLists}

\* JSON values offered to Cip777.UnmarshalJSON and Cip27Metadata.UnmarshalJSON.
Cip777Members(rate, pct, addr) == MapsCopy(MapsCopy(rate, pct), addr)

Cip777JsonItems ==
    {JsonObject(Cip777Members(rate, pct, addr)) :
        rate \in {EmptyMap} \cup {MapSet(EmptyMap, rateKey, v) :
                                     v \in {JsonString(<<>>), JsonString(<<48, 46, 53>>),
                                            Null, JsonNumber(0, 1)}},
        pct \in {EmptyMap} \cup {MapSet(EmptyMap, pctKey, v) :
                                    v \in {JsonString(<<48, 46, 49>>), Null}},
        addr \in {EmptyMap} \cup {MapSet(EmptyMap, addrKey, v) :
                                     v \in {JsonString(<<97>>), Array(<<>>), JsonNumber(0, 1)}}}
    \cup {Null, JsonString(<<97>>)}

ReuseCip777JsonItems ==
    {JsonObject(MapSet(EmptyMap, pctKey, JsonString(<<48, 46, 49>>))),
     JsonObject(MapSet(EmptyMap, addrKey, JsonString(<<98>>))),
     JsonObject(MapSet(EmptyMap, rateKey, JsonNumber(0, 1)))}

Cip27JsonItems ==
    {JsonObject(MapSet(EmptyMap, num777Key, x)) : x \in Cip777JsonItems}
    \cup {JsonObject(MapSet(EmptyMap, num777Key,
                            JsonObject(Cip777Members(MapSet(EmptyMap, rateKey, JsonString(r)),
                                                     EmptyMap,
                                                     MapSet(EmptyMap, addrKey, JsonString(<<97>>)))))) :
             r \in RateStrings}
    \cup {JsonObject(EmptyMap), Null, JsonString(<<97>>)}

ReuseCip27JsonItems ==
    {JsonObject(MapSet(EmptyMap, num777Key, x)) : x \in ReuseCip777JsonItems}
    \cup {JsonObject(EmptyMap)}

\* Messages: "", "a", 64 and 65 times "a", and 33 and 65 times the two-byte
\* character U+00E9.
Repeat(ch, n) == [i \in 1..n |-> ch]
Accented(n) == [i \in 1..(2 * n) |-> IF i % 2 = 1 THEN 195 ELSE 169]

Messages ==
    {<<>>, <<97>>, Repeat(97, MsgMax), Repeat(97, MsgMax + 1),
     Accented(MsgMax \div 2 + 1), Accented(MsgMax + 1)}

MessageLists ==
    {NilSlice, Slice(<<>>)}
    \cup {Slice(<<m>>) : m \in Messages}
    \cup {Slice(<<<<97>>, m>>) : m \in {Repeat(97, MsgMax), Repeat(97, MsgMax + 1)}}
    \cup {Slice(<<Repeat(97, MsgMax + 1), <<97>>>>)}

Cip20Literals == {[Num674 |-> [Msg |-> l]] : l \in MessageLists}

\* JSON values offered to json.Unmarshal into a Cip20Metadata.
MsgObject(v) == JsonObject(MapSet(EmptyMap, num674Key, JsonObject(MapSet(EmptyMap, msgKey, v))))

Cip20JsonItems ==
    {MsgObject(JsonMarshalStrings(l)) : l \in MessageLists}
    \cup {MsgObject(Array(<<JsonString(<<97>>), JsonNumber(0, 1)>>)),
          MsgObject(Array(<<Null, JsonString(<<97>>)>>)),
          MsgObject(JsonString(<<97>>)),
          JsonObject(MapSet(EmptyMap, num674Key, Null)),
          JsonObject(MapSet(EmptyMap, num674Key, JsonObject(EmptyMap))),
          JsonObject(MapSet(EmptyMap, num674Key, JsonNumber(0, 1))),
          JsonObject(EmptyMap), Null, JsonString(<<97>>)}

\* Assets and policies offered to Cip25Metadata.Validate and NewCip25Metadata.
SampleFile ==
    [ZeroFileDetails EXCEPT !.Name = <<97>>, !.MediaType = <<97>>,
                            !.Src = [Uris |-> Slice(<<<<98>>>>)]]

SampleFiles ==
    {SampleFile,
     [SampleFile EXCEPT !.Name = <<>>],
     [SampleFile EXCEPT !.MediaType = <<>>],
     [SampleFile EXCEPT !.Src = [Uris |-> NilSlice]],
     [SampleFile EXCEPT !.Src = [Uris |-> Slice(<<>>)]],
     [SampleFile EXCEPT !.Extra = MapSet(EmptyMap, xKey, JsonString(<<97>>))]}

SampleAsset == CHOOSE a \in SampleAssets : a.MediaType = <<>>

CheckedAssets ==
    {SampleAsset,
     [SampleAsset EXCEPT !.Name = <<>>],
     [SampleAsset EXCEPT !.Image = [Uris |-> NilSlice]],
     [SampleAsset EXCEPT !.Image = [Uris |-> Slice(<<>>)]],
     [SampleAsset EXCEPT !.Image = [Uris |-> Slice(<<<<>>>>)]],
     [SampleAsset EXCEPT !.Extra = MapSet(EmptyMap, xKey, JsonString(<<97>>))]}
    \cup {[SampleAsset EXCEPT !.Files = <<f>>] : f \in SampleFiles}
    \cup {[SampleAsset EXCEPT !.Files = <<SampleFile, [SampleFile EXCEPT !.Name = <<>>]>>]}

CheckedPolicies ==
    {EmptyMap, MapSet(EmptyMap, <<54, 49>>, EmptyMap)}
    \cup {MapSet(EmptyMap, <<54, 49>>, MapSet(EmptyMap, <<54, 49>>, a)) : a \in CheckedAssets}
    \cup {MapSet(MapSet(EmptyMap, <<54, 49>>, MapSet(EmptyMap, <<54, 49>>, SampleAsset)),
                 <<54, 97>>, MapSet(EmptyMap, <<54>>, a)) :
             a \in {SampleAsset, [SampleAsset EXCEPT !.Name = <<>>]}}

\* Collections with files and extra keys, beside those of Num721s.
RichAssets ==
    {[SampleAsset EXCEPT !.Extra = MapSet(EmptyMap, xKey, JsonString(<<97>>))],
     [SampleAsset EXCEPT !.Files = <<SampleFile>>],
     [SampleAsset EXCEPT !.Files =
         <<[SampleFile EXCEPT !.Extra = MapSet(EmptyMap, xKey, JsonString(<<97>>))]>>]}

RichNum721s ==
    {[Version |-> v,
      Policies |-> MapSet(EmptyMap, <<54, 49>>, MapSet(EmptyMap, <<54, 49>>, a))] :
        v \in 1..2, a \in RichAssets}

\* A version-2 collection with the policies "zz" and "7a7a".
CollidingNum721s ==
    {[Version |-> 2,
      Policies |-> MapSet(MapSet(EmptyMap, <<122, 122>>, MapSet(EmptyMap, <<54, 49>>, SampleAsset)),
                          <<55, 97, 55, 97>>, MapSet(EmptyMap, <<54, 49>>, SampleAsset))]}

RichNum721Items == {Num721_MarshalCBOR(n, FALSE) : n \in RichNum721s}

EncodedNum721Items == {Num721_MarshalCBOR(n, FALSE) : n \in Num721s \cup RichNum721s}

EncodedNum721JsonItems == {Num721_MarshalJSON(n) : n \in Num721s \cup RichNum721s}

Cip25Literals ==
    {[Num721 |-> [Version |-> v, Policies |-> p]] : v \in 0..MaxVersion, p \in CheckedPolicies}

\* The arguments of a call of a function.
Args(a) == [k |-> "args", v |-> a]

Zero(kind) ==
    CASE kind = "CardanoDnsMaybe" -> ZeroMaybe("CardanoDnsTtl")
      [] kind = "CardanoDnsDomainRecord" -> ZeroRecord
      [] kind = "CardanoDnsDomain" -> ZeroDomain
      [] kind = "LegacyCardanoDnsDomain" -> ZeroLegacyDomain
      [] kind = "MiddleCardanoDnsDomain" -> ZeroDomain
      [] kind = "AddrField" -> [Addresses |-> NilSlice]
      [] kind = "UriField" -> [Uris |-> NilSlice]
      [] kind = "DescField" -> [Descriptions |-> NilSlice]
      [] kind = "AssetMetadata" -> ZeroAssetMetadata
      [] kind = "Num721" -> ZeroNum721
      [] kind = "Cip777" -> ZeroCip777
      [] kind = "Cip27Metadata" -> ZeroCip27Metadata
      [] kind = "Cip20Metadata" -> ZeroCip20Metadata
      [] kind = "Cip25Metadata" -> ZeroCip25Metadata

Literals(kind) ==
    CASE kind = "CardanoDnsMaybe" -> Ttls
      [] kind = "CardanoDnsDomainRecord" -> Records
      [] kind = "CardanoDnsDomain" -> Domains
      [] kind = "LegacyCardanoDnsDomain" -> {ZeroLegacyDomain}
      [] kind = "MiddleCardanoDnsDomain" -> {ZeroDomain}
      [] kind = "AddrField" -> {[Addresses |-> s] : s \in StringSlices}
      [] kind = "UriField" -> {[Uris |-> s] : s \in StringSlices}
      [] kind = "DescField" -> {[Descriptions |-> s] : s \in StringSlices}
      [] kind = "AssetMetadata" -> AssetLiterals
      [] kind = "Num721" -> Num721s \cup RichNum721s \cup CollidingNum721s
      [] kind = "Cip777" -> {ZeroCip777}
      [] kind = "Cip27Metadata" -> Cip27Literals
      [] kind = "Cip20Metadata" -> Cip20Literals
      [] kind = "Cip25Metadata" -> Cip25Literals

Items(kind, fresh) ==
    CASE kind = "CardanoDnsMaybe" -> TtlItems
      [] kind = "CardanoDnsDomainRecord" ->
            IF fresh THEN RecordItems ELSE ReuseRecordItems
      [] kind \in {"CardanoDnsDomain", "LegacyCardanoDnsDomain",
                   "MiddleCardanoDnsDomain"} ->
            IF fresh THEN DomainItems ELSE ReuseDomainItems

(***************************************************************************)
(* The state machine: a caller holds one value (recv), builds it or        *)
(* declares it, and calls one codec method at a time on it.  op names the  *)
(* method that has just returned ("idle" between calls), arg its input,    *)
(* ret its error and output, old the receiver as it was before the call.   *)
(***************************************************************************)
NoResult == [err |-> "nil", out |-> Null]

Init ==
    /\ recv = [kind |-> "CardanoDnsDomain", val |-> ZeroDomain]
    /\ op = "idle"
    /\ arg = Null
    /\ ret = NoResult
    /\ old = recv

\* var x T, or a composite literal T{...}, by a caller that has not used the
\* value it holds.
Declare ==
    /\ op = "idle"
    /\ recv.val = Zero(recv.kind)
    /\ \E kind \in Kinds :
          \E x \in {Zero(kind)} \cup Literals(kind) :
             recv' = [kind |-> kind, val |-> x]
    /\ old' = recv'
    /\ UNCHANGED <<op, arg, ret>>

Decode(name, kind, data, r) ==
    /\ op = "idle"
    /\ recv.kind = kind
    /\ op' = name
    /\ arg' = data
    /\ old' = recv
    /\ recv' = [kind |-> kind, val |-> r.c]
    /\ ret' = [err |-> r.err, out |-> Null]

Encode(name, kind, out) ==
    /\ op = "idle"
    /\ recv.kind = kind
    /\ op' = name
    /\ arg' = Null
    /\ old' = recv
    /\ ret' = [err |-> "nil", out |-> out]
    /\ UNCHANGED recv

MaybeUnmarshalCBOR ==
    /\ recv.kind = "CardanoDnsMaybe"
    /\ \E data \in Items("CardanoDnsMaybe", TRUE) :
          Decode("CardanoDnsMaybe.UnmarshalCBOR", "CardanoDnsMaybe", data,
                 CardanoDnsMaybe_UnmarshalCBOR("CardanoDnsTtl", recv.val, data))

MaybeMarshalCBOR ==
    /\ recv.kind = "CardanoDnsMaybe"
    /\ Encode("CardanoDnsMaybe.MarshalCBOR", "CardanoDnsMaybe",
              CardanoDnsMaybe_MarshalCBOR("CardanoDnsTtl", recv.val))

RecordUnmarshalCBOR ==
    /\ recv.kind = "CardanoDnsDomainRecord"
    /\ \E data \in Items("CardanoDnsDomainRecord", recv.val = ZeroRecord) :
          Decode("CardanoDnsDomainRecord.UnmarshalCBOR", "CardanoDnsDomainRecord", data,
                 CardanoDnsDomainRecord_UnmarshalCBOR(recv.val, data))

RecordMarshalCBOR ==
    /\ recv.kind = "CardanoDnsDomainRecord"
    /\ Encode("CardanoDnsDomainRecord.MarshalCBOR", "CardanoDnsDomainRecord",
              CardanoDnsDomainRecord_MarshalCBOR(recv.val))

DomainUnmarshalCBOR ==
    /\ recv.kind = "CardanoDnsDomain"
    /\ \E data \in Items("CardanoDnsDomain", recv.val = ZeroDomain) :
          Decode("CardanoDnsDomain.UnmarshalCBOR", "CardanoDnsDomain", data,
                 CardanoDnsDomain_UnmarshalCBOR(recv.val, data))

DomainMarshalCBOR ==
    /\ recv.kind = "CardanoDnsDomain"
    /\ Encode("CardanoDnsDomain.MarshalCBOR", "CardanoDnsDomain",
              CardanoDnsDomain_MarshalCBOR(recv.val))

LegacyDomainUnmarshalCBOR ==
    /\ recv.kind = "LegacyCardanoDnsDomain"
    /\ Len(recv.val.Records) <= MaxRecords
    /\ \E data \in Items("LegacyCardanoDnsDomain", recv.val = ZeroLegacyDomain) :
          Decode("LegacyCardanoDnsDomain.UnmarshalCBOR", "LegacyCardanoDnsDomain", data,
                 LegacyCardanoDnsDomain_UnmarshalCBOR(recv.val, data))

MiddleDomainUnmarshalCBOR ==
    /\ recv.kind = "MiddleCardanoDnsDomain"
    /\ Len(recv.val.Records) <= MaxRecords
    /\ \E data \in Items("MiddleCardanoDnsDomain", recv.val = ZeroDomain) :
          Decode("MiddleCardanoDnsDomain.UnmarshalCBOR", "MiddleCardanoDnsDomain", data,
                 MiddleCardanoDnsDomain_UnmarshalCBOR(recv.val, data))

AddrFieldMarshalJSON ==
    /\ recv.kind = "AddrField"
    /\ Encode("AddrField.MarshalJSON", "AddrField", AddrField_MarshalJSON(recv.val))

UriFieldMarshalJSON ==
    /\ recv.kind = "UriField"
    /\ Encode("UriField.MarshalJSON", "UriField", UriField_MarshalJSON(recv.val))

UriFieldMarshalCBOR ==
    /\ recv.kind = "UriField"
    /\ Encode("UriField.MarshalCBOR", "UriField", UriField_MarshalCBOR(recv.val))

DescFieldMarshalJSON ==
    /\ recv.kind = "DescField"
    /\ Encode("DescField.MarshalJSON", "DescField", DescField_MarshalJSON(recv.val))

DescFieldMarshalCBOR ==
    /\ recv.kind = "DescField"
    /\ Encode("DescField.MarshalCBOR", "DescField", DescField_MarshalCBOR(recv.val))

AddrFieldUnmarshalJSON ==
    /\ recv.kind = "AddrField"
    /\ \E data \in JsonFlexItems :
          Decode("AddrField.UnmarshalJSON", "AddrField", data,
                 AddrField_UnmarshalJSON(recv.val, data))

UriFieldUnmarshalJSON ==
    /\ recv.kind = "UriField"
    /\ \E data \in JsonFlexItems :
          Decode("UriField.UnmarshalJSON", "UriField", data,
                 UriField_UnmarshalJSON(recv.val, data))

UriFieldUnmarshalCBOR ==
    /\ recv.kind = "UriField"
    /\ \E data \in CborFlexItems :
          Decode("UriField.UnmarshalCBOR", "UriField", data,
                 UriField_UnmarshalCBOR(recv.val, data))

DescFieldUnmarshalJSON ==
    /\ recv.kind = "DescField"
    /\ \E data \in JsonFlexItems :
          Decode("DescField.UnmarshalJSON", "DescField", data,
                 DescField_UnmarshalJSON(recv.val, data))

DescFieldUnmarshalCBOR ==
    /\ recv.kind = "DescField"
    /\ \E data \in CborFlexItems :
          Decode("DescField.UnmarshalCBOR", "DescField", data,
                 DescField_UnmarshalCBOR(recv.val, data))

AssetMetadataUnmarshalJSON ==
    /\ recv.kind = "AssetMetadata"
    /\ Len(recv.val.Files) < MaxFiles
    /\ \E rev \in BOOLEAN :
          \E data \in (IF recv.val = ZeroAssetMetadata
                       THEN AssetJsonItems ELSE ReuseAssetJsonItems) :
             Decode("AssetMetadata.UnmarshalJSON", "AssetMetadata", data,
                    AssetMetadata_UnmarshalJSON(recv.val, data, rev))

AssetMetadataMarshalJSON ==
    /\ recv.kind = "AssetMetadata"
    /\ Encode("AssetMetadata.MarshalJSON", "AssetMetadata",
              AssetMetadata_MarshalJSON(recv.val))

Num721UnmarshalCBOR ==
    /\ recv.kind = "Num721"
    /\ \E rev \in BOOLEAN :
          \E data \in (IF recv.val = ZeroNum721
                       THEN Num721Items \cup RichNum721Items
                       ELSE ReuseNum721Items) :
             Decode("Num721.UnmarshalCBOR", "Num721", data,
                    Num721_UnmarshalCBOR(recv.val, data, rev))

Num721MarshalCBOR ==
    /\ recv.kind = "Num721"
    /\ \E rev \in BOOLEAN :
          Encode("Num721.MarshalCBOR", "Num721", Num721_MarshalCBOR(recv.val, rev))

Num721UnmarshalJSON ==
    /\ recv.kind = "Num721"
    /\ \E rev \in BOOLEAN :
          \E data \in (IF recv.val = ZeroNum721
                       THEN Num721JsonItems \cup EncodedNum721JsonItems
                       ELSE {JsonObject(p) : p \in PolicyMembers}) :
             Decode("Num721.UnmarshalJSON", "Num721", data,
                    Num721_UnmarshalJSON(recv.val, data, rev))

Num721MarshalJSON ==
    /\ recv.kind = "Num721"
    /\ Encode("Num721.MarshalJSON", "Num721", Num721_MarshalJSON(recv.val))

Cip777UnmarshalJSON ==
    /\ recv.kind = "Cip777"
    /\ \E data \in (IF recv.val = ZeroCip777 THEN Cip777JsonItems ELSE ReuseCip777JsonItems) :
          Decode("Cip777.UnmarshalJSON", "Cip777", data,
                 Cip777_UnmarshalJSON(recv.val, data))

Cip27MetadataUnmarshalJSON ==
    /\ recv.kind = "Cip27Metadata"
    /\ \E data \in (IF recv.val = ZeroCip27Metadata
                    THEN Cip27JsonItems ELSE ReuseCip27JsonItems) :
          Decode("Cip27Metadata.UnmarshalJSON", "Cip27Metadata", data,
                 Cip27Metadata_UnmarshalJSON(recv.val, data))

\* A method that reads the receiver and returns an error or nil.
Check(name, kind, err) ==
    /\ op = "idle"
    /\ recv.kind = kind
    /\ op' = name
    /\ arg' = Null
    /\ old' = recv
    /\ ret' = [err |-> err, out |-> Null]
    /\ UNCHANGED recv

\* A function of the package, called by a caller that holds a new value.
Call(name, kind, args, result) ==
    /\ op = "idle"
    /\ recv = [kind |-> kind, val |-> Zero(kind)]
    /\ op' = name
    /\ arg' = Args(args)
    /\ old' = recv
    /\ ret' = result
    /\ UNCHANGED recv

Cip27MetadataValidate ==
    /\ recv.kind = "Cip27Metadata"
    /\ Check("Cip27Metadata.Validate", "Cip27Metadata", Cip27Metadata_Validate(recv.val))

NewCip27MetadataCall ==
    \E rate \in RateStrings, addresses \in AddressLists :
        Call("NewCip27Metadata", "Cip27Metadata",
             [rate |-> rate, addresses |-> addresses],
             NewCip27Metadata(rate, addresses))

Cip20MetadataValidate ==
    /\ recv.kind = "Cip20Metadata"
    /\ Check("Cip20Metadata.Validate", "Cip20Metadata", Cip20Metadata_Validate(recv.val))

NewCip20MetadataCall ==
    \E messages \in MessageLists :
        Call("NewCip20Metadata", "Cip20Metadata", [messages |-> messages],
             NewCip20Metadata(messages))

\* json.Unmarshal(data, &c) with c a new Cip20Metadata.
Cip20MetadataJsonUnmarshal ==
    /\ recv = [kind |-> "Cip20Metadata", val |-> ZeroCip20Metadata]
    /\ \E data \in Cip20JsonItems :
          Decode("json.Unmarshal(Cip20Metadata)", "Cip20Metadata", data,
                 JsonUnmarshalCip20Metadata(data))

Cip25MetadataValidate ==
    /\ recv.kind = "Cip25Metadata"
    /\ Check("Cip25Metadata.Validate", "Cip25Metadata", Cip25Metadata_Validate(recv.val))

NewCip25MetadataCall ==
    \E version \in 0..MaxVersion, policies \in CheckedPolicies :
        Call("NewCip25Metadata", "Cip25Metadata",
             [version |-> version, policies |-> policies],
             NewCip25Metadata(version, policies))

\* The caller is done with the result; the receiver stays as the call left it.
Return ==
    /\ op # "idle"
    /\ op' = "idle"
    /\ arg' = Null
    /\ ret' = NoResult
    /\ old' = recv
    /\ UNCHANGED recv

Next ==
    \/ Declare
    \/ MaybeUnmarshalCBOR
    \/ MaybeMarshalCBOR
    \/ RecordUnmarshalCBOR
    \/ RecordMarshalCBOR
    \/ DomainUnmarshalCBOR
    \/ DomainMarshalCBOR
    \/ LegacyDomainUnmarshalCBOR
    \/ MiddleDomainUnmarshalCBOR
    \/ AddrFieldMarshalJSON
    \/ UriFieldMarshalJSON
    \/ UriFieldMarshalCBOR
    \/ DescFieldMarshalJSON
    \/ DescFieldMarshalCBOR
    \/ AddrFieldUnmarshalJSON
    \/ UriFieldUnmarshalJSON
    \/ UriFieldUnmarshalCBOR
    \/ DescFieldUnmarshalJSON
    \/ DescFieldUnmarshalCBOR
    \/ AssetMetadataUnmarshalJSON
    \/ AssetMetadataMarshalJSON
    \/ Num721UnmarshalCBOR
    \/ Num721MarshalCBOR
    \/ Num721UnmarshalJSON
    \/ Num721MarshalJSON
    \/ Cip777UnmarshalJSON
    \/ Cip27MetadataUnmarshalJSON
    \/ Cip27MetadataValidate
    \/ NewCip27MetadataCall
    \/ Cip20MetadataValidate
    \/ NewCip20MetadataCall
    \/ Cip20MetadataJsonUnmarshal
    \/ Cip25MetadataValidate
    \/ NewCip25MetadataCall
    \/ Return

Spec == Init /\ [][Next]_vars

TypeOK == recv.kind \in Kinds

(***************************************************************************)
(* Properties.                                                             *)
(***************************************************************************)
Present(n) == [Value |-> n, hasValue |-> TRUE]

\* C1: decoding the binary encoding of a domain M yields a domain equal to
\* M: same origin, same records in the same order, each with the same lhs,
\* type, rhs and the same ttl presence and value.
DomainRoundTrip ==
    op = "CardanoDnsDomain.UnmarshalCBOR" =>
        \A d \in Domains :
            arg = CardanoDnsDomain_MarshalCBOR(d) =>
                /\ ret.err = "nil"
                /\ recv.val.Origin = d.Origin
                /\ Len(recv.val.Records) = Len(d.Records)
                /\ \A i \in 1..Len(d.Records) :
                      /\ recv.val.Records[i].Lhs = d.Records[i].Lhs
                      /\ recv.val.Records[i].Type = d.Records[i].Type
                      /\ recv.val.Records[i].Rhs = d.Records[i].Rhs
                      /\ HasValue(recv.val.Records[i].Ttl) = HasValue(d.Records[i].Ttl)
                      /\ recv.val.Records[i].Ttl.Value = d.Records[i].Ttl.Value
                /\ HasValue(recv.val.AdditionalData) = HasValue(d.AdditionalData)

DomainRoundTripWitness ==
    /\ op = "CardanoDnsDomain.UnmarshalCBOR"
    /\ ret.err = "nil"
    /\ \E d \in Domains :
          /\ arg = CardanoDnsDomain_MarshalCBOR(d)
          /\ Len(d.Records) = MaxRecords
          /\ HasValue(d.Records[1].Ttl)
          /\ ~HasValue(d.Records[2].Ttl)
          /\ d.Origin # <<>>
          /\ recv.val.Records = d.Records

\* C2: CardanoDnsMaybe.MarshalCBOR encodes present(x) as constructor 0 with
\* exactly one field equal to x, and absent as constructor 1 with no field.
MaybeEncodeConstructors ==
    op = "CardanoDnsMaybe.MarshalCBOR" =>
        /\ ret.err = "nil"
        /\ IsConstructor(ret.out)
        /\ HasValue(old.val) =>
              /\ Constructor(ret.out) = 0
              /\ Fields(ret.out) = <<UInt(old.val.Value)>>
        /\ ~HasValue(old.val) =>
              /\ Constructor(ret.out) = 1
              /\ Fields(ret.out) = <<>>

MaybeEncodeConstructorsWitness ==
    /\ op = "CardanoDnsMaybe.MarshalCBOR"
    /\ old.val = Present(MaxTtl)
    /\ ret.out = NewConstructor(0, <<UInt(MaxTtl)>>)

\* Some record of the array in a domain item carries a constructor index
\* other than 1.
NestedWrongIndex(data) ==
    /\ IsConstructor(data)
    /\ Len(Fields(data)) >= 2
    /\ Fields(data)[2].k = "array"
    /\ \E i \in 1..Len(Fields(data)[2].v) :
          LET item == Fields(data)[2].v[i]
          IN  IsConstructor(item) /\ Constructor(item) # 1

\* C3: decoding a domain, or a record nested in it, from a constructor
\* whose index is not 1 returns an error and produces no domain or record.
WrongIndexIsError ==
    /\ (/\ op \in {"CardanoDnsDomain.UnmarshalCBOR", "CardanoDnsDomainRecord.UnmarshalCBOR"}
        /\ IsConstructor(arg)
        /\ Constructor(arg) # 1)
          => (ret.err = "error" /\ recv = old)
    /\ (op = "CardanoDnsDomain.UnmarshalCBOR" /\ NestedWrongIndex(arg))
          => (ret.err = "error" /\ recv = old)

WrongIndexIsErrorWitness ==
    /\ op = "CardanoDnsDomain.UnmarshalCBOR"
    /\ IsConstructor(arg)
    /\ Constructor(arg) = 1
    /\ Len(Fields(arg)) = 3
    /\ NestedWrongIndex(arg)
    /\ ret.err = "error"

\* C4: CardanoDnsMaybe.UnmarshalCBOR returns an error for a constructor
\* whose index is neither 0 nor 1, and yields no optional.
MaybeOtherIndexIsError ==
    (/\ op = "CardanoDnsMaybe.UnmarshalCBOR"
     /\ IsConstructor(arg)
     /\ Constructor(arg) \notin {0, 1})
        => ret.err = "error"

\* C5: under constructor 0 CardanoDnsMaybe.UnmarshalCBOR succeeds only
\* with exactly one field, yielding present with that field's value; no
\* field, or two or more fields, is an error.
MaybePresentArity ==
    (/\ op = "CardanoDnsMaybe.UnmarshalCBOR"
     /\ IsConstructor(arg)
     /\ Constructor(arg) = 0)
        => /\ ret.err = "nil" =>
                /\ Len(Fields(arg)) = 1
                /\ recv.val = Present(Fields(arg)[1].v)
           /\ Len(Fields(arg)) # 1 => (ret.err = "error" /\ recv = old)
           /\ (Len(Fields(arg)) = 1 /\ Fields(arg)[1].k = "uint") => ret.err = "nil"

MaybePresentArityWitness ==
    /\ op = "CardanoDnsMaybe.UnmarshalCBOR"
    /\ IsConstructor(arg)
    /\ Constructor(arg) = 0
    /\ Len(Fields(arg)) = 2
    /\ ret.err = "error"

\* Shapes of a record item under constructor 1.
AllBytes(f, S) == \A j \in S : f[j].k = "bytes"

ThreeFieldItem(item) ==
    /\ IsConstructor(item)
    /\ Constructor(item) = 1
    /\ Len(Fields(item)) = 3
    /\ AllBytes(Fields(item), {1, 2, 3})

FourFieldItem(item, kind) ==
    /\ IsConstructor(item)
    /\ Constructor(item) = 1
    /\ Len(Fields(item)) = 4
    /\ AllBytes(Fields(item), {1, 3, 4})
    /\ Fields(item)[2].k = kind

\* The record the newest revision makes of a 4-field item with ttl t.
Decoded4(item, t) ==
    [Lhs |-> Fields(item)[1].v, Ttl |-> t,
     Type |-> Fields(item)[3].v, Rhs |-> Fields(item)[4].v]

LegacyItems == Fields(arg)[2].v
LegacyAt(i) == recv.val.Records[Len(old.val.Records) + i]

TaggedTtlAsExpected(item, r) ==
    LET t == Fields(item)[2] IN
    /\ (Constructor(t) = 0 /\ Len(Fields(t)) = 1 /\ Fields(t)[1].k = "uint")
          => r = [err |-> "nil", c |-> Decoded4(item, Present(Fields(t)[1].v))]
    /\ Constructor(t) = 1
          => r = [err |-> "nil", c |-> Decoded4(item, ZeroMaybe("CardanoDnsTtl"))]

TaggedOptionalTtlDecodes ==
    /\ (op = "CardanoDnsDomainRecord.UnmarshalCBOR" /\ FourFieldItem(arg, "constr"))
          => TaggedTtlAsExpected(arg, [err |-> ret.err, c |-> recv.val])
    /\ (op = "CardanoDnsDomain.UnmarshalCBOR" /\ ret.err = "nil")
          => \A i \in 1..Len(Fields(arg)[2].v) :
                /\ FourFieldItem(Fields(arg)[2].v[i], "constr")
                /\ TaggedTtlAsExpected(Fields(arg)[2].v[i],
                                       [err |-> "nil", c |-> recv.val.Records[i]])

TaggedOptionalTtlDecodesWitness ==
    /\ op = "CardanoDnsDomainRecord.UnmarshalCBOR"
    /\ FourFieldItem(arg, "constr")
    /\ Fields(arg)[2] = NewConstructor(0, <<UInt(MaxTtl)>>)
    /\ Fields(arg)[3].v # Fields(arg)[4].v
    /\ old.val # ZeroRecord
    /\ recv.val = Decoded4(arg, Present(MaxTtl))

BadCountAt(data, i) ==
    /\ IsConstructor(data)
    /\ Len(Fields(data)) >= 2
    /\ Fields(data)[2].k = "array"
    /\ i \in 1..Len(Fields(data)[2].v)
    /\ IsConstructor(Fields(data)[2].v[i])
    /\ Len(Fields(Fields(data)[2].v[i])) \notin {3, 4}

\* C9: a record whose field count is not 3 or 4 is an error, and no record
\* is added to the domain.
OtherFieldCountIsError ==
    /\ (/\ op = "CardanoDnsDomainRecord.UnmarshalCBOR"
        /\ IsConstructor(arg)
        /\ Len(Fields(arg)) \notin {3, 4})
          => (ret.err = "error" /\ recv = old)
    /\ \A i \in 1..MaxRecords + 1 :
          /\ (op = "CardanoDnsDomain.UnmarshalCBOR" /\ BadCountAt(arg, i))
                => (ret.err = "error" /\ recv = old)
          /\ (op = "LegacyCardanoDnsDomain.UnmarshalCBOR" /\ BadCountAt(arg, i))
                => /\ ret.err # "nil"
                   /\ Len(recv.val.Records) < Len(old.val.Records) + i

OtherFieldCountIsErrorWitness ==
    /\ op = "CardanoDnsDomain.UnmarshalCBOR"
    /\ IsConstructor(arg)
    /\ Constructor(arg) = 1
    /\ Len(Fields(arg)) = 3
    /\ BadCountAt(arg, 2)
    /\ ~BadCountAt(arg, 1)
    /\ Len(old.val.Records) = 1
    /\ ret.err = "error"
    /\ recv = old

\* The flexible scalar fields and their encoders.
FlexOps == {"AddrField.MarshalJSON", "UriField.MarshalJSON", "UriField.MarshalCBOR",
            "DescField.MarshalJSON", "DescField.MarshalCBOR"}

Strs(r) ==
    CASE r.kind = "AddrField" -> r.val.Addresses
      [] r.kind = "UriField" -> r.val.Uris
      [] r.kind = "DescField" -> r.val.Descriptions

IsBareString(w) == w.k \in {"string", "text"}

ArrayInOrder(w, s) ==
    /\ w.k = "array"
    /\ Len(w.v) = len(s)
    /\ \A i \in 1..len(s) : IsBareString(w.v[i]) /\ w.v[i].v = s.elems[i]

\* C10 as stated: every encoder of a flexible scalar field emits a bare
\* string if and only if the sequence has exactly one element, and an array
\* of the strings in order for two or more elements.
BareStringIffOne ==
    op \in FlexOps =>
        /\ IsBareString(ret.out) <=> len(Strs(old)) = 1
        /\ len(Strs(old)) >= 2 => ArrayInOrder(ret.out, Strs(old))

\* C10 amended: as stated, except that DescField.MarshalJSON also emits a
\* bare string, the empty one, for a sequence of no element.
BareStringIffOneOrEmptyDesc ==
    op \in FlexOps =>
        /\ IsBareString(ret.out) <=>
              \/ len(Strs(old)) = 1
              \/ op = "DescField.MarshalJSON" /\ len(Strs(old)) = 0
        /\ len(Strs(old)) = 1 => ret.out.v = Strs(old).elems[1]
        /\ (op = "DescField.MarshalJSON" /\ len(Strs(old)) = 0) => ret.out = JsonString(<<>>)
        /\ len(Strs(old)) >= 2 => ArrayInOrder(ret.out, Strs(old))

BareStringIffOneOrEmptyDescWitness ==
    /\ op = "UriField.MarshalCBOR"
    /\ len(Strs(old)) = 1
    /\ ret.out = CborText(<<97>>)

\* The decoders of the flexible scalar fields, and the encoder whose output
\* each of them reads.
FlexDecodeOps == {"AddrField.UnmarshalJSON", "UriField.UnmarshalJSON",
                  "UriField.UnmarshalCBOR", "DescField.UnmarshalJSON",
                  "DescField.UnmarshalCBOR"}

FlexEncoding(name, x) ==
    CASE name = "AddrField.UnmarshalJSON" -> AddrField_MarshalJSON([Addresses |-> x])
      [] name = "UriField.UnmarshalJSON" -> UriField_MarshalJSON([Uris |-> x])
      [] name = "UriField.UnmarshalCBOR" -> UriField_MarshalCBOR([Uris |-> x])
      [] name = "DescField.UnmarshalJSON" -> DescField_MarshalJSON([Descriptions |-> x])
      [] name = "DescField.UnmarshalCBOR" -> DescField_MarshalCBOR([Descriptions |-> x])

\* C11: for AddrField, UriField and DescField holding a sequence s of one
\* or more strings, decoding the encoding of s (text, and binary for
\* UriField and DescField) yields exactly s, same elements in same order.
FlexRoundTrip ==
    op \in FlexDecodeOps =>
        \A x \in StringSlices :
            (len(x) >= 1 /\ arg = FlexEncoding(op, x)) =>
                /\ ret.err = "nil"
                /\ Strs(recv).elems = x.elems

FlexRoundTripWitness ==
    /\ op = "UriField.UnmarshalCBOR"
    /\ arg = UriField_MarshalCBOR([Uris |-> Slice(<<<<97>>, <<>>>>)])
    /\ len(Strs(old)) = 1
    /\ Strs(recv).elems = <<<<97>>, <<>>>>

\* C12: decoding a flexible scalar field accepts exactly a bare string
\* (giving a one-element sequence) or an array of strings (used as is);
\* a number, an object, a boolean, an array with a non-string element and
\* null are errors, except that null is accepted for the description field.
FlexDecodeShapes ==
    op \in FlexDecodeOps =>
        /\ IsBareString(arg) =>
              (ret.err = "nil" /\ Strs(recv).elems = <<arg.v>>)
        /\ (arg.k = "array" /\ \A i \in 1..Len(arg.v) : IsBareString(arg.v[i])) =>
              (ret.err = "nil" /\ ArrayInOrder(arg, Strs(recv)))
        /\ (\/ arg.k \in {"number", "uint", "object", "map", "bool"}
            \/ arg.k = "array" /\ \E i \in 1..Len(arg.v) :
                                     arg.v[i].k \in {"number", "uint", "array"}) =>
              ret.err = "error"
        /\ arg.k = "null" =>
              (ret.err = "nil" <=> recv.kind = "DescField")

\* The entries of an encoded Num721 that carry policies: all but the
\* version entry, which is written first and only when the version is not 1.
PolicyEntriesOf(out, version) == IF version # 1 THEN Tail(out.v) ELSE out.v

\* The wire key is the stored key as the claim describes it under a version.
KeyAsClaimed(key, stored, version) ==
    IF version = 1 THEN key.k = "text" /\ key.v = stored
    ELSE /\ key.k = "bytes"
         /\ IF HexValid(stored)
            THEN /\ 2 * Len(key.v) = Len(stored)
                 /\ \A i \in 1..Len(key.v) :
                       key.v[i] = 16 * FromHexChar(stored[2 * i - 1])
                                  + FromHexChar(stored[2 * i])
            ELSE key.v = stored

\* C13: Num721.MarshalCBOR writes every policy key and asset key by the
\* version: under version 1 as a text string equal to the stored key, under
\* version 2 as a byte string of the bytes the stored hex text denotes or,
\* when the stored text is not valid hex, of the bytes of the text itself.
VersionedKeyEncode ==
    (op = "Num721.MarshalCBOR" /\ old.val.Version \in {1, 2}) =>
        LET v == old.val.Version
            P == old.val.Policies
            es == PolicyEntriesOf(ret.out, v)
        IN  /\ Len(es) = Cardinality(DOMAIN P)
            /\ \A x \in DOMAIN P :
                  \E i \in 1..Len(es) :
                     /\ KeyAsClaimed(es[i].key, x, v)
                     /\ es[i].val.k = "map"
                     /\ Len(es[i].val.v) = Cardinality(DOMAIN P[x])
                     /\ \A a \in DOMAIN P[x] :
                           \E j \in 1..Len(es[i].val.v) :
                              KeyAsClaimed(es[i].val.v[j].key, a, v)

VersionedKeyEncodeWitness ==
    /\ op = "Num721.MarshalCBOR"
    /\ old.val.Version = 2
    /\ DOMAIN old.val.Policies = {<<54, 49>>, <<122, 122>>}
    /\ \E i \in 1..Len(ret.out.v) : ret.out.v[i].key = Bytes(<<97>>)
    /\ \E i \in 1..Len(ret.out.v) : ret.out.v[i].key = Bytes(<<122, 122>>)

\* text is the lowercase hex text of the bytes b.
HexTextOf(text, b) ==
    /\ HexValid(text)
    /\ DecodeString(text) = b
    /\ \A i \in 1..Len(text) : text[i] \notin 65..70

\* The stored key k is what the claim makes of the wire key.
DecodedAs(key, x) ==
    \/ key.k = "text" /\ key.v = x
    \/ key.k = "bytes" /\ HexTextOf(x, key.v)

NotVersionEntries(entries) == SelectSeq(entries, LAMBDA e : ~IsVersionKey(e.key))

VersionTooLarge(data) ==
    VersionEntry(data.v).k = "uint" /\ VersionEntry(data.v).v > 100

\* Some key of a policy, or of an asset in a policy, has a type outside kinds.
SomeKeyOutside(es, kinds) ==
    \E i \in 1..Len(es) :
       \/ es[i].key.k \notin kinds
       \/ /\ es[i].val.k = "map"
          /\ \E j \in 1..Len(es[i].val.v) : es[i].val.v[j].key.k \notin kinds

\* C14: Num721.UnmarshalCBOR reads policy and asset keys by the decoded
\* version: under version 1 a key that is not a text string fails the
\* decode; under version 2 a byte-string key becomes the lowercase hex text
\* of its bytes, a text key is kept, a key of another type fails the decode.
VersionedKeyDecode ==
    (op = "Num721.UnmarshalCBOR" /\ arg.k = "map" /\ ~VersionTooLarge(arg)) =>
        LET v == recv.val.Version
            P == recv.val.Policies
            es == NotVersionEntries(LastWins(arg.v))
        IN  /\ (v = 1 /\ SomeKeyOutside(es, {"text"})) => ret.err = "error"
            /\ (v = 2 /\ SomeKeyOutside(es, {"text", "bytes"})) => ret.err = "error"
            /\ (v \in {1, 2} /\ ret.err = "nil") =>
                  /\ \A x \in DOMAIN P : \E i \in 1..Len(es) : DecodedAs(es[i].key, x)
                  /\ \A i \in 1..Len(es) :
                        \E x \in DOMAIN P :
                           /\ DecodedAs(es[i].key, x)
                           /\ \A j \in 1..Len(es[i].val.v) :
                                 \E a \in DOMAIN P[x] : DecodedAs(es[i].val.v[j].key, a)

VersionedKeyDecodeWitness ==
    /\ op = "Num721.UnmarshalCBOR"
    /\ ret.err = "nil"
    /\ recv.val.Version = 2
    /\ \E i \in 1..Len(arg.v) :
          /\ arg.v[i].key = CborText(<<54, 49>>)
          /\ \E j \in 1..Len(arg.v[i].val.v) : arg.v[i].val.v[j].key = Bytes(<<106>>)
    /\ DOMAIN recv.val.Policies = {<<54, 49>>}
    /\ DOMAIN recv.val.Policies[<<54, 49>>] = {<<54, 97>>}

\* The models of version 1 and 2 with their binary encoding.
Num721Encodings ==
    {[m |-> n, w |-> Num721_MarshalCBOR(n, FALSE)] : n \in {x \in Num721s : x.Version \in {1, 2}}}

AllKeys(n) == DOMAIN n.Policies \cup UNION {DOMAIN n.Policies[x] : x \in DOMAIN n.Policies}

SameKeys(P, Q) == DOMAIN P = DOMAIN Q /\ \A x \in DOMAIN P : DOMAIN P[x] = DOMAIN Q[x]

ToLower(key) == [i \in 1..Len(key) |-> IF key[i] \in 65..70 THEN key[i] + 32 ELSE key[i]]

Ascending(S) ==
    CHOOSE seq \in [1..Cardinality(S) -> S] :
        /\ \A x \in S : \E i \in 1..Cardinality(S) : seq[i] = x
        /\ \A i \in 1..(Cardinality(S) - 1) : StringLess(seq[i], seq[i + 1])

\* C16: Num721.MarshalCBOR writes the policies, and in each policy the
\* assets, in strictly ascending order of the stored text of their keys,
\* whatever the order in which the maps are visited.
SortedEncode ==
    op = "Num721.MarshalCBOR" =>
        LET v == old.val.Version
            P == old.val.Policies
            es == PolicyEntriesOf(ret.out, v)
            keys == Ascending(DOMAIN P)
        IN  /\ Len(es) = Len(keys)
            /\ \A i \in 1..Len(keys) :
                  LET innerKeys == Ascending(DOMAIN P[keys[i]])
                  IN  /\ es[i].key = EncodeKey(keys[i], v)
                      /\ Len(es[i].val.v) = Len(innerKeys)
                      /\ \A j \in 1..Len(innerKeys) :
                            es[i].val.v[j].key = EncodeKey(innerKeys[j], v)
            /\ ret.out = Num721_MarshalCBOR(old.val, TRUE)
            /\ ret.out = Num721_MarshalCBOR(old.val, FALSE)

SortedEncodeWitness ==
    /\ op = "Num721.MarshalCBOR"
    /\ old.val.Version = 1
    /\ DOMAIN old.val.Policies = {<<122, 122>>, versionKey}
    /\ ret.out.v[1].key = CborText(versionKey)
    /\ ret.out.v[2].key = CborText(<<122, 122>>)
    /\ Len(ret.out.v[2].val.v) = MaxKeys

\* C17: decoding NFT metadata without a version entry into a new model
\* yields version 1, in Num721.UnmarshalJSON and in Num721.UnmarshalCBOR.
VersionDefaultsToOne ==
    /\ (/\ op = "Num721.UnmarshalCBOR"
        /\ old.val = ZeroNum721
        /\ arg.k = "map"
        /\ VersionEntry(arg.v).k = "none"
        /\ ret.err = "nil") => recv.val.Version = 1
    /\ (/\ op = "Num721.UnmarshalJSON"
        /\ old.val = ZeroNum721
        /\ arg.k = "object"
        /\ versionKey \notin DOMAIN arg.v
        /\ ret.err = "nil") => recv.val.Version = 1

VersionDefaultsToOneWitness ==
    /\ op = "Num721.UnmarshalCBOR"
    /\ old.val = ZeroNum721
    /\ arg.k = "map"
    /\ VersionEntry(arg.v).k = "none"
    /\ ret.err = "nil"
    /\ DOMAIN recv.val.Policies = {<<54>>, <<54, 49>>}
    /\ recv.val.Version = 1

\* C18: decoding NFT metadata whose version entry is greater than 100
\* returns an error, in the text decoder and in the binary decoder.
VersionTooLargeIsError ==
    /\ (op = "Num721.UnmarshalCBOR" /\ arg.k = "map" /\ VersionTooLarge(arg))
          => ret.err = "error"
    /\ (/\ op = "Num721.UnmarshalJSON"
        /\ arg.k = "object"
        /\ versionKey \in DOMAIN arg.v
        /\ arg.v[versionKey].k = "number"
        /\ arg.v[versionKey].v.n > 100) => ret.err = "error"

KnownKeys == {nameKey, imageKey, mediaTypeKey, descriptionKey, filesKey}

\* C19: for an asset object with keys outside name, image, mediaType,
\* description and files, text decode stores exactly those keys in Extra,
\* and text encode of the decoded asset emits each of them with the value
\* it had in the input.
ExtraKeysPreserved ==
    (op = "AssetMetadata.UnmarshalJSON" /\ arg.k = "object" /\ ret.err = "nil") =>
        /\ DOMAIN recv.val.Extra = DOMAIN arg.v \ KnownKeys
        /\ \A x \in DOMAIN arg.v \ KnownKeys :
              /\ x \in DOMAIN AssetMetadata_MarshalJSON(recv.val).v
              /\ AssetMetadata_MarshalJSON(recv.val).v[x] = arg.v[x]

\* C20: AssetMetadata.MarshalJSON never lets an entry of Extra replace a
\* typed key: the value emitted under name, image, mediaType, description
\* or files is the one of the typed field.
TypedKeysNotOverwritten ==
    op = "AssetMetadata.MarshalJSON" =>
        LET a == old.val
            out == ret.out.v
        IN  /\ out[nameKey] = JsonString(a.Name)
            /\ out[imageKey] = UriField_MarshalJSON(a.Image)
            /\ a.MediaType # <<>> => out[mediaTypeKey] = JsonString(a.MediaType)
            /\ len(a.Description.Descriptions) > 0 =>
                  out[descriptionKey] = DescField_MarshalJSON(a.Description)
            /\ Len(a.Files) > 0 =>
                  out[filesKey] = Array([i \in 1..Len(a.Files) |->
                                            FileDetails_MarshalJSON(a.Files[i])])

\* The object that holds the royalty fields, and the Cip777 decoded from it.
RoyaltyOps == {"Cip777.UnmarshalJSON", "Cip27Metadata.UnmarshalJSON"}

RoyaltyInput ==
    IF op = "Cip777.UnmarshalJSON" THEN arg
    ELSE IF arg.k = "object" /\ num777Key \in DOMAIN arg.v THEN arg.v[num777Key]
    ELSE Null

RoyaltyDecoded == IF op = "Cip777.UnmarshalJSON" THEN recv.val ELSE recv.val.Num777

HasString(m, key) == key \in DOMAIN m /\ m[key].k = "string"
NoValue(m, key) == key \notin DOMAIN m \/ m[key].k = "null"

InUnitRange(rate) ==
    LET p == ParseFloat(rate)
    IN  /\ ~p.err
        /\ p.val.class = "finite"
        /\ p.val.num <= p.val.den
        /\ ~(p.val.neg /\ p.val.num > 0)

\* C22: Cip27Metadata.Validate returns no error if and only if the rate
\* parses as a finite number in [0.0, 1.0] and there is at least one
\* address.
ValidateRoyalty ==
    op = "Cip27Metadata.Validate" =>
        (ret.err = "nil" <=> /\ InUnitRange(old.val.Num777.Rate)
                             /\ len(old.val.Num777.Addr.Addresses) >= 1)

\* The number of characters of a message.
Characters(m) == Cardinality({j \in 1..Len(m) : m[j] \notin 128..191})

ListAccepted(l) ==
    /\ ~l.isNil
    /\ len(l) >= 1
    /\ \A i \in 1..len(l) : Characters(l.elems[i]) <= 64

\* C23: Cip20Metadata.Validate and NewCip20Metadata accept a message list
\* if and only if it has at least one message and every message has at most
\* 64 characters.
MessageListAccepted ==
    /\ op = "Cip20Metadata.Validate" =>
          (ret.err = "nil" <=> ListAccepted(old.val.Num674.Msg))
    /\ op = "NewCip20Metadata" =>
          (ret.err = "nil" <=> ListAccepted(arg.v.messages))

MessageListAcceptedWitness ==
    /\ op = "Cip20Metadata.Validate"
    /\ len(old.val.Num674.Msg) = 2
    /\ Len(old.val.Num674.Msg.elems[1]) = 1
    /\ Len(old.val.Num674.Msg.elems[2]) = 65
    /\ ret.err = "error"

\* The rules the claim gives for an asset and its files.
AssetAsRequired(a) ==
    /\ Len(a.Name) > 0
    /\ Len(a.Image.Uris.elems) >= 1
    /\ \A i \in 1..Len(a.Files) :
          /\ Len(a.Files[i].Name) > 0
          /\ Len(a.Files[i].MediaType) > 0
          /\ Len(a.Files[i].Src.Uris.elems) >= 1

CollectionAsRequired(n) ==
    /\ n.Version \in {1, 2}
    /\ DOMAIN n.Policies # {}
    /\ \A policy \in DOMAIN n.Policies :
          \A asset \in DOMAIN n.Policies[policy] :
             AssetAsRequired(n.Policies[policy][asset])

\* C24: Cip25Metadata.Validate returns no error if and only if the version
\* is 1 or 2, there is at least one policy, every asset has a non-empty name
\* and an image of at least one URI, and every file has a non-empty name, a
\* non-empty media type and a src of at least one URI.
CollectionValidated ==
    op = "Cip25Metadata.Validate" =>
        (ret.err = "nil" <=> CollectionAsRequired(old.val.Num721))

CollectionValidatedWitness ==
    /\ op = "Cip25Metadata.Validate"
    /\ old.val.Num721.Version = 1
    /\ \E policy \in DOMAIN old.val.Num721.Policies :
          \E asset \in DOMAIN old.val.Num721.Policies[policy] :
             LET a == old.val.Num721.Policies[policy][asset]
             IN  /\ Len(a.Files) = 2
                 /\ a.Files[1] = SampleFile
                 /\ a.Files[2].Name = <<>>
    /\ ret.err = "error"

Constructors == {"NewCip20Metadata", "NewCip27Metadata", "NewCip25Metadata"}

\* The Validate method of the model a constructor returns.
ValidateOf(name, model) ==
    CASE name = "NewCip20Metadata" -> Cip20Metadata_Validate(model)
      [] name = "NewCip27Metadata" -> Cip27Metadata_Validate(model)
      [] name = "NewCip25Metadata" -> Cip25Metadata_Validate(model)

\* C25: a constructor returns either a model and no error, and then Validate
\* of that model returns no error, or no model and an error; it never
\* returns a model together with an error nor a model that fails Validate.
ConstructorResult ==
    op \in Constructors =>
        \/ /\ ret.err = "nil"
           /\ ret.out.k = "pointer"
           /\ ValidateOf(op, ret.out.v) = "nil"
        \/ /\ ret.err = "error"
           /\ ret.out.k = "null"

ConstructorResultWitness ==
    /\ op = "NewCip27Metadata"
    /\ arg.v.rate = <<50>>
    /\ Len(arg.v.addresses.elems) >= 1
    /\ ret.err = "error"
    /\ ret.out.k = "null"

\* The valid collections with their binary and their text encoding.
ValidCollections ==
    {n \in Num721s \cup RichNum721s : Cip25Metadata_Validate([Num721 |-> n]) = "nil"}

CollectionEncodings ==
    {[m |-> n, w |-> Num721_MarshalCBOR(n, FALSE), t |-> Num721_MarshalJSON(n)] :
        n \in ValidCollections}

SameFile(f, g) ==
    /\ f.Name = g.Name
    /\ f.MediaType = g.MediaType
    /\ f.Src.Uris.elems = g.Src.Uris.elems
    /\ f.Extra = g.Extra

SameAsset(a, b) ==
    /\ a.Name = b.Name
    /\ a.Image.Uris.elems = b.Image.Uris.elems
    /\ a.MediaType = b.MediaType
    /\ a.Description.Descriptions.elems = b.Description.Descriptions.elems
    /\ Len(a.Files) = Len(b.Files)
    /\ \A i \in 1..Len(a.Files) : i <= Len(b.Files) => SameFile(a.Files[i], b.Files[i])
    /\ a.Extra = b.Extra

SameCollection(n, m) ==
    /\ n.Version = m.Version
    /\ SameKeys(n.Policies, m.Policies)
    /\ \A policy \in DOMAIN m.Policies :
          \A asset \in DOMAIN m.Policies[policy] :
             (policy \in DOMAIN n.Policies /\ asset \in DOMAIN n.Policies[policy])
                => SameAsset(n.Policies[policy][asset], m.Policies[policy][asset])

\* C26: for every valid collection M, of version 1 or 2, with any policy and
\* asset keys and with extra keys on assets and files, decoding the binary
\* encoding of M and decoding the text encoding of M both yield M: same
\* version, same policy and asset keys, and for each asset the same name,
\* image, media type, description, files and extra mapping.
CollectionRoundTrip ==
    /\ (op = "Num721.UnmarshalCBOR" /\ old.val = ZeroNum721) =>
          \A e \in CollectionEncodings :
             arg = e.w => ret.err = "nil" /\ SameCollection(recv.val, e.m)
    /\ (op = "Num721.UnmarshalJSON" /\ old.val = ZeroNum721) =>
          \A e \in CollectionEncodings :
             arg = e.t => ret.err = "nil" /\ SameCollection(recv.val, e.m)

\* The decode operations of the three metadata models, and Validate of the
\* model the receiver is (a Num721 is the content of a Cip25Metadata).
ModelDecodes ==
    {"json.Unmarshal(Cip20Metadata)", "Cip27Metadata.UnmarshalJSON",
     "Num721.UnmarshalJSON", "Num721.UnmarshalCBOR"}

ValidateModel(r) ==
    CASE r.kind = "Cip20Metadata" -> Cip20Metadata_Validate(r.val)
      [] r.kind = "Cip27Metadata" -> Cip27Metadata_Validate(r.val)
      [] r.kind = "Num721" -> Cip25Metadata_Validate([Num721 |-> r.val])

DecodeNames ==
    {"CardanoDnsMaybe.UnmarshalCBOR", "CardanoDnsDomainRecord.UnmarshalCBOR",
     "CardanoDnsDomain.UnmarshalCBOR", "AddrField.UnmarshalJSON", "UriField.UnmarshalJSON",
     "UriField.UnmarshalCBOR", "DescField.UnmarshalJSON", "DescField.UnmarshalCBOR",
     "AssetMetadata.UnmarshalJSON", "Num721.UnmarshalCBOR", "Num721.UnmarshalJSON",
     "Cip777.UnmarshalJSON", "Cip27Metadata.UnmarshalJSON"}

DecodeIntoNew(name, data, rev) ==
    CASE name = "CardanoDnsMaybe.UnmarshalCBOR" ->
            CardanoDnsMaybe_UnmarshalCBOR("CardanoDnsTtl", Zero("CardanoDnsMaybe"), data)
      [] name = "CardanoDnsDomainRecord.UnmarshalCBOR" ->
            CardanoDnsDomainRecord_UnmarshalCBOR(Zero("CardanoDnsDomainRecord"), data)
      [] name = "CardanoDnsDomain.UnmarshalCBOR" ->
            CardanoDnsDomain_UnmarshalCBOR(Zero("CardanoDnsDomain"), data)
      [] name = "AddrField.UnmarshalJSON" -> AddrField_UnmarshalJSON(Zero("AddrField"), data)
      [] name = "UriField.UnmarshalJSON" -> UriField_UnmarshalJSON(Zero("UriField"), data)
      [] name = "UriField.UnmarshalCBOR" -> UriField_UnmarshalCBOR(Zero("UriField"), data)
      [] name = "DescField.UnmarshalJSON" -> DescField_UnmarshalJSON(Zero("DescField"), data)
      [] name = "DescField.UnmarshalCBOR" -> DescField_UnmarshalCBOR(Zero("DescField"), data)
      [] name = "AssetMetadata.UnmarshalJSON" ->
            AssetMetadata_UnmarshalJSON(ZeroAssetMetadata, data, rev)
      [] name = "Num721.UnmarshalCBOR" -> Num721_UnmarshalCBOR(ZeroNum721, data, rev)
      [] name = "Num721.UnmarshalJSON" -> Num721_UnmarshalJSON(ZeroNum721, data, rev)
      [] name = "Cip777.UnmarshalJSON" -> Cip777_UnmarshalJSON(ZeroCip777, data)
      [] name = "Cip27Metadata.UnmarshalJSON" ->
            Cip27Metadata_UnmarshalJSON(ZeroCip27Metadata, data)

\* C28: the result of a decode call depends only on its input: whatever the
\* receiver held from earlier calls, decoding x returns what decoding x into
\* a new receiver returns and, when that is no error, leaves the same model;
\* so an absent optional decoded over present(v) yields absent, a collection
\* without version entry decoded over version 2 yields version 1, and an
\* asset decoded over a receiver with files yields only the input's files.
DecodeDependsOnInputOnly ==
    op \in DecodeNames =>
        \E rev \in BOOLEAN :
            /\ ret.err = DecodeIntoNew(op, arg, rev).err
            /\ ret.err = "nil" => recv.val = DecodeIntoNew(op, arg, rev).c

Distinct(entries) ==
    \A i, j \in 1..Len(entries) : i # j => entries[i].key # entries[j].key

\* C29: under version 2 Num721.MarshalCBOR writes a wire key of its own for
\* every policy key and for every asset key of a policy: the encoded map has
\* as many policy entries as the model has policies, no two with the same
\* key, and likewise the map of each policy, also for keys that differ in
\* the case of their hex letters only and for a key that is not hex text
\* beside the hex text of its bytes.
WireKeysDistinct ==
    (op = "Num721.MarshalCBOR" /\ old.val.Version = 2) =>
        LET entries == Tail(ret.out.v)
        IN  /\ Len(entries) = Cardinality(DOMAIN old.val.Policies)
            /\ Distinct(entries)
            /\ \A i \in 1..Len(entries) : Distinct(entries[i].val.v)

\* The two older revisions of CardanoDnsDomain.UnmarshalCBOR.
OlderDomainDecodes ==
    {"LegacyCardanoDnsDomain.UnmarshalCBOR", "MiddleCardanoDnsDomain.UnmarshalCBOR"}

\* C30 as stated: when CardanoDnsDomain.UnmarshalCBOR, in any of its
\* revisions, returns an error, the receiver is as it was before the call.
ReceiverKeptOnError ==
    (op \in OlderDomainDecodes \cup {"CardanoDnsDomain.UnmarshalCBOR"} /\ ret.err = "error")
        => recv = old

\* C30 amended: when the newest revision returns an error the receiver is as
\* it was before the call.  When an older revision returns an error because
\* of the domain's constructor index or field count, the receiver is as it
\* was; when it does because of a record, the receiver holds the origin of
\* the input and, after the records it held, the records of the input that
\* precede the failing one, its additional data being as before.
ReceiverKeptOnErrorNewest ==
    /\ (op = "CardanoDnsDomain.UnmarshalCBOR" /\ ret.err = "error") => recv = old
    /\ (op \in OlderDomainDecodes /\ ret.err = "error") =>
          \/ recv = old
          \/ /\ IsConstructor(arg)
             /\ Len(Fields(arg)) >= 2
             /\ recv.val.Origin = Fields(arg)[1].v
             /\ recv.val.AdditionalData = old.val.AdditionalData
             /\ \E n \in 0..(Len(Fields(arg)[2].v) - 1) :
                   /\ Len(recv.val.Records) = Len(old.val.Records) + n
                   /\ SubSeq(recv.val.Records, 1, Len(old.val.Records)) = old.val.Records

\* The second record of the input has constructor index 0: the newest
\* revision keeps nothing of the first.
ReceiverKeptOnErrorNewestWitness ==
    /\ op = "CardanoDnsDomain.UnmarshalCBOR"
    /\ ret.err = "error"
    /\ IsConstructor(arg)
    /\ Constructor(arg) = 1
    /\ Len(Fields(arg)) = 3
    /\ Fields(arg)[1] = Bytes(<<97>>)
    /\ Fields(arg)[2].k = "array"
    /\ Len(Fields(arg)[2].v) = 2
    /\ CardanoDnsDomainRecord_UnmarshalCBOR(ZeroRecord, Fields(arg)[2].v[1]).err = "nil"
    /\ IsConstructor(Fields(arg)[2].v[2])
    /\ Constructor(Fields(arg)[2].v[2]) = 0
    /\ recv = old
    /\ recv.val.Origin = <<>>
    /\ recv.val.Records = <<>>

====
